---- MODULE Spec2Model ----
(***************************************************************************)
(* Model of visibility_doctor: GapAnalyzer.analyze (analyzer.py) and       *)
(* ActionPlanGenerator.generate (actions.py).                              *)
(*                                                                         *)
(* Numbers.  Ratings are held in hundredths of a star (4.8 -> 480); every  *)
(* other quantity is an integer in the unit of the source.  Means,         *)
(* percentages and ROI scores are exact fractions [num, den] with den > 0, *)
(* compared by cross-multiplication.                                       *)
(*                                                                         *)
(* Text.  A string of the program is named in the model by an ASCII        *)
(* string; Chars gives the code points the source file holds for it, and   *)
(* lower() and the `in' substring test work on those code points.          *)
(*                                                                         *)
(* Gap.description, Gap.your_value and Gap.market_value are display        *)
(* strings no decision depends on; they are not part of the model.         *)
(***************************************************************************)
EXTENDS Integers, Sequences, FiniteSets, TLC

\* ------------------------------------------------------------------ bounds
\* longest competitor list
MaxCompetitors == 3
\* fields in which a (target, grade) pair may differ from a base pair
MaxDeviations == 1
\* findings per bucket of a hand-built GapAnalysis
MaxGaps == 3

\* --------------------------------------------------------------- fractions
Frac(a, b) == [num |-> a, den |-> b]
I(k) == Frac(k, 1)
Lt(x, y) == x.num * y.den < y.num * x.den
Le(x, y) == x.num * y.den <= y.num * x.den
Gt(x, y) == Lt(y, x)
Ge(x, y) == Le(y, x)
Eq(x, y) == x.num * y.den = y.num * x.den
RECURSIVE GCD(_, _)
GCD(a, b) == IF b = 0 THEN a ELSE GCD(b, a % b)
\* the same fraction in lowest terms (keeps the products small)
Reduce(x) ==
  LET g == GCD(IF x.num < 0 THEN -x.num ELSE x.num, x.den)
  IN Frac(x.num \div g, x.den \div g)
Sub(x, y) == Reduce(Frac(x.num * y.den - y.num * x.den, x.den * y.den))
Add(x, y) == Reduce(Frac(x.num * y.den + y.num * x.den, x.den * y.den))
Mul(x, y) == Reduce(Frac(x.num * y.num, x.den * y.den))
\* x / y for y > 0
Div(x, y) == Reduce(Frac(x.num * y.den, x.den * y.num))
Abs(k) == IF k < 0 THEN -k ELSE k
Max(a, b) == IF a >= b THEN a ELSE b
Min(a, b) == IF a <= b THEN a ELSE b

\* ------------------------------------------------------------ Python floats
\* The ratings and prices of the program are binary64 numbers, and so are
\* the sums, means, differences and quotients formed from them; each
\* operation rounds its result to the nearest binary64 number, ties to even.
\* A float is held here as the number  val + err * 2^k : val is the exact
\* fraction the computation stands for and err * 2^k the rounding error it
\* has gathered (err a fraction, k an integer).
Float(val, err, k) == [val |-> val, err |-> err, k |-> k]

\* 2^e as a fraction
Pow2(e) == IF e >= 0 THEN Frac(2 ^ e, 1) ELSE Frac(1, 2 ^ (0 - e))

RECURSIVE PowMod(_, _)
\* 2^e mod q
PowMod(e, q) ==
  IF e = 0 THEN 1 % q
  ELSE IF e % 2 = 0
       THEN LET h == PowMod(e \div 2, q) IN (h * h) % q
       ELSE (2 * PowMod(e - 1, q)) % q

RECURSIVE Log2From(_, _)
\* the e with 2^e <= a < 2^(e+1), searched from e on, for a > 0
Log2From(a, e) ==
  IF Ge(a, Pow2(e + 1)) THEN Log2From(a, e + 1)
  ELSE IF Lt(a, Pow2(e)) THEN Log2From(a, e - 1)
  ELSE e

\* Round-to-nearest-even of the number v + r * 2^k (|r * 2^k| far below
\* |v|).  With a = |v|, sr the error counted away from zero and
\* 2^E <= |v + r * 2^k| < 2^(E+1), the binary64 numbers near it are the
\* multiples of 2^kp, kp = E - 52.  All of the following count in units of
\* 2^kp: f is the part of a above the multiple below it, t is f with the
\* error added, m0 the whole part of t, and the multiple chosen lies m above
\* the one below a.

\* E from the e with 2^e <= a < 2^(e+1)
Binade(a, sr, e) == IF Eq(a, Pow2(e)) /\ sr.num < 0 THEN e - 1 ELSE e

\* f: a / 2^kp modulo 1
GridRest(a, kp) ==
  Frac(((a.num % a.den) * PowMod(0 - kp, a.den)) % a.den, a.den)

\* the last bit of the multiple below a
GridBelow(a, kp) ==
  (((a.num % (2 * a.den)) * PowMod(0 - kp, 2 * a.den)) % (2 * a.den)) \div a.den

\* m: t rounded to a whole number, a tie to the even multiple
Nearest(a, kp, m0, fr) ==
  IF Gt(fr, Frac(1, 2)) THEN m0 + 1
  ELSE IF Eq(fr, Frac(1, 2)) /\ (GridBelow(a, kp) + m0) % 2 = 1 THEN m0 + 1
  ELSE m0

RoundWhole(v, s, a, kp, f, t, m0) ==
  Float(v, Mul(I(s), Sub(I(Nearest(a, kp, m0, Sub(t, I(m0)))), f)), kp)

RoundSum(v, s, a, kp, f, t) == RoundWhole(v, s, a, kp, f, t, t.num \div t.den)

RoundRest(v, s, sr, k, a, kp, f) ==
  RoundSum(v, s, a, kp, f,
           IF sr.num = 0 THEN f ELSE Add(f, Mul(sr, Pow2(k - kp))))

RoundGrid(v, s, sr, k, a, kp) == RoundRest(v, s, sr, k, a, kp, GridRest(a, kp))

RoundAbs(v, s, sr, k, a) ==
  RoundGrid(v, s, sr, k, a, Binade(a, sr, Log2From(a, 0)) - 52)

RoundSigned(v, r, k, s) ==
  RoundAbs(v, s, Frac(s * r.num, r.den), k, Frac(s * v.num, v.den))

\* A number with val = 0 is a difference of binary64 numbers that cancel
\* in val, which is a binary64 number itself, and so is an integer (the
\* integers of the model are far below 2^53).
Round(v, r, k) ==
  IF v.num = 0 \/ (r.num = 0 /\ v.den = 1) THEN Float(v, r, k)
  ELSE RoundSigned(v, r, k, IF v.num > 0 THEN 1 ELSE -1)

\* float(x) of a decimal or an integer: the binary64 number nearest to x
Fl(x) == Round(Reduce(x), I(0), 0)

\* the floats of the decimals with two places from -1.00 to 5.00, by their
\* hundredths: Hundredths[480] is the float 4.8, Hundredths[-20] is -0.2
Hundredths == [h \in -100..500 |-> Fl(Frac(h, 100))]

\* the errors of two floats in one unit 2^K
ErrUnit(x, y) ==
  IF x.err.num = 0 THEN y.k ELSE IF y.err.num = 0 THEN x.k ELSE Min(x.k, y.k)
ErrIn(x, K) == IF x.err.num = 0 THEN I(0) ELSE Mul(x.err, Pow2(x.k - K))

\* x + y, x - y and x / y on floats; the error of a quotient is taken to
\* first order in the errors of x and y
FAdd(x, y) ==
  LET K == ErrUnit(x, y)
  IN Round(Add(x.val, y.val), Add(ErrIn(x, K), ErrIn(y, K)), K)
FSub(x, y) ==
  LET K == ErrUnit(x, y)
  IN Round(Sub(x.val, y.val), Sub(ErrIn(x, K), ErrIn(y, K)), K)
FDiv(x, y) ==
  LET K == ErrUnit(x, y)
  IN Round(Div(x.val, y.val),
           Div(Sub(Mul(ErrIn(x, K), y.val), Mul(x.val, ErrIn(y, K))),
               Mul(y.val, y.val)),
           K)

\* x < y on floats, and the comparisons derived from it
FLt(x, y) ==
  \/ Lt(x.val, y.val)
  \/ /\ Eq(x.val, y.val)
     /\ LET K == ErrUnit(x, y) IN Lt(ErrIn(x, K), ErrIn(y, K))
FGt(x, y) == FLt(y, x)
FLe(x, y) == ~FLt(y, x)
FGe(x, y) == ~FLt(x, y)

RECURSIVE FSumFrom(_, _)
\* the running total with its first addition made
FSumNext(next, xs) ==
  IF next.val.den > 0 THEN FSumFrom(next, xs) ELSE next

\* sum(...) of floats: added to the running total from left to right
FSumFrom(total, xs) ==
  IF xs = <<>> THEN total ELSE FSumNext(FAdd(total, Head(xs)), Tail(xs))
FSum(xs) == FSumFrom(Fl(I(0)), xs)

\* -------------------------------------------------------------------- text
Chars(s) ==
  CASE s = "" -> <<>>
  [] s = "Wifi" -> <<87, 105, 102, 105>>
  [] s = "WIFI" -> <<87, 73, 70, 73>>
  [] s = "Kitchen" -> <<75, 105, 116, 99, 104, 101, 110>>
  [] s = "Air conditioning" -> <<65, 105, 114, 32, 99, 111, 110, 100, 105, 116, 105, 111, 110, 105, 110, 103>>
  [] s = "Pool" -> <<80, 111, 111, 108>>
  [] s = "wifi" -> <<119, 105, 102, 105>>
  [] s = "kitchen" -> <<107, 105, 116, 99, 104, 101, 110>>
  [] s = "air conditioning" -> <<97, 105, 114, 32, 99, 111, 110, 100, 105, 116, 105, 111, 110, 105, 110, 103>>
  [] s = "Instant Book desactive" -> <<73, 110, 115, 116, 97, 110, 116, 32, 66, 111, 111, 107, 32, 100, 8730, 169, 115, 97, 99, 116, 105, 118, 8730, 169>>
  [] s = "Instant Book active" -> <<73, 110, 115, 116, 97, 110, 116, 32, 66, 111, 111, 107, 32, 97, 99, 116, 105, 118, 8730, 169>>
  [] s = "Nombre de photos insuffisant" -> <<78, 111, 109, 98, 114, 101, 32, 100, 101, 32, 112, 104, 111, 116, 111, 115, 32, 105, 110, 115, 117, 102, 102, 105, 115, 97, 110, 116>>
  [] s = "Photos en dessous de la moyenne" -> <<80, 104, 111, 116, 111, 115, 32, 101, 110, 32, 100, 101, 115, 115, 111, 117, 115, 32, 100, 101, 32, 108, 97, 32, 109, 111, 121, 101, 110, 110, 101>>
  [] s = "Excellent nombre de photos" -> <<69, 120, 99, 101, 108, 108, 101, 110, 116, 32, 110, 111, 109, 98, 114, 101, 32, 100, 101, 32, 112, 104, 111, 116, 111, 115>>
  [] s = "Rating critique" -> <<82, 97, 116, 105, 110, 103, 32, 99, 114, 105, 116, 105, 113, 117, 101>>
  [] s = "Rating en dessous du marche" -> <<82, 97, 116, 105, 110, 103, 32, 101, 110, 32, 100, 101, 115, 115, 111, 117, 115, 32, 100, 117, 32, 109, 97, 114, 99, 104, 8730, 169>>
  [] s = "Excellent rating" -> <<69, 120, 99, 101, 108, 108, 101, 110, 116, 32, 114, 97, 116, 105, 110, 103>>
  [] s = "Rating superieur au marche" -> <<82, 97, 116, 105, 110, 103, 32, 115, 117, 112, 8730, 169, 114, 105, 101, 117, 114, 32, 97, 117, 32, 109, 97, 114, 99, 104, 8730, 169>>
  [] s = "Temps de reponse trop long" -> <<84, 101, 109, 112, 115, 32, 100, 101, 32, 114, 8730, 169, 112, 111, 110, 115, 101, 32, 116, 114, 111, 112, 32, 108, 111, 110, 103>>
  [] s = "Temps de reponse a ameliorer" -> <<84, 101, 109, 112, 115, 32, 100, 101, 32, 114, 8730, 169, 112, 111, 110, 115, 101, 32, 8730, 8224, 32, 97, 109, 8730, 169, 108, 105, 111, 114, 101, 114>>
  [] s = "Excellent temps de reponse" -> <<69, 120, 99, 101, 108, 108, 101, 110, 116, 32, 116, 101, 109, 112, 115, 32, 100, 101, 32, 114, 8730, 169, 112, 111, 110, 115, 101>>
  [] s = "Prix tres au-dessus du marche" -> <<80, 114, 105, 120, 32, 116, 114, 8730, 174, 115, 32, 97, 117, 45, 100, 101, 115, 115, 117, 115, 32, 100, 117, 32, 109, 97, 114, 99, 104, 8730, 169>>
  [] s = "Prix au-dessus du marche" -> <<80, 114, 105, 120, 32, 97, 117, 45, 100, 101, 115, 115, 117, 115, 32, 100, 117, 32, 109, 97, 114, 99, 104, 8730, 169>>
  [] s = "Prix competitif" -> <<80, 114, 105, 120, 32, 99, 111, 109, 112, 8730, 169, 116, 105, 116, 105, 102>>
  [] s = "Prix potentiellement trop bas" -> <<80, 114, 105, 120, 32, 112, 111, 116, 101, 110, 116, 105, 101, 108, 108, 101, 109, 101, 110, 116, 32, 116, 114, 111, 112, 32, 98, 97, 115>>
  [] s = "Equipements essentiels manquants" -> <<8730, 226, 113, 117, 105, 112, 101, 109, 101, 110, 116, 115, 32, 101, 115, 115, 101, 110, 116, 105, 101, 108, 115, 32, 109, 97, 110, 113, 117, 97, 110, 116, 115>>
  [] s = "Equipements courants manquants" -> <<8730, 226, 113, 117, 105, 112, 101, 109, 101, 110, 116, 115, 32, 99, 111, 117, 114, 97, 110, 116, 115, 32, 109, 97, 110, 113, 117, 97, 110, 116, 115>>
  [] s = "Statut Superhost" -> <<83, 116, 97, 116, 117, 116, 32, 83, 117, 112, 101, 114, 104, 111, 115, 116>>
  [] s = "Pas de statut Superhost" -> <<80, 97, 115, 32, 100, 101, 32, 115, 116, 97, 116, 117, 116, 32, 83, 117, 112, 101, 114, 104, 111, 115, 116>>
  [] s = "Badge Guest Favorite" -> <<66, 97, 100, 103, 101, 32, 71, 117, 101, 115, 116, 32, 70, 97, 118, 111, 114, 105, 116, 101>>
  [] s = "Guest Favorite atteignable" -> <<71, 117, 101, 115, 116, 32, 70, 97, 118, 111, 114, 105, 116, 101, 32, 97, 116, 116, 101, 105, 103, 110, 97, 98, 108, 101>>
  [] s = "Trop peu d'avis" -> <<84, 114, 111, 112, 32, 112, 101, 117, 32, 100, 39, 97, 118, 105, 115>>
  [] s = "Nombre d'avis en dessous du marche" -> <<78, 111, 109, 98, 114, 101, 32, 100, 39, 97, 118, 105, 115, 32, 101, 110, 32, 100, 101, 115, 115, 111, 117, 115, 32, 100, 117, 32, 109, 97, 114, 99, 104, 8730, 169>>
  [] s = "Excellent nombre d'avis" -> <<69, 120, 99, 101, 108, 108, 101, 110, 116, 32, 110, 111, 109, 98, 114, 101, 32, 100, 39, 97, 118, 105, 115>>
  [] s = "instant book" -> <<105, 110, 115, 116, 97, 110, 116, 32, 98, 111, 111, 107>>
  [] s = "photos" -> <<112, 104, 111, 116, 111, 115>>
  [] s = "temps de reponse" -> <<116, 101, 109, 112, 115, 32, 100, 101, 32, 114, 233, 112, 111, 110, 115, 101>>
  [] s = "rating" -> <<114, 97, 116, 105, 110, 103>>
  [] s = "avis" -> <<97, 118, 105, 115>>
  [] s = "prix" -> <<112, 114, 105, 120>>
  [] s = "equipements" -> <<233, 113, 117, 105, 112, 101, 109, 101, 110, 116, 115>>
  [] s = "superhost" -> <<115, 117, 112, 101, 114, 104, 111, 115, 116>>
  [] s = "guest favorite" -> <<103, 117, 101, 115, 116, 32, 102, 97, 118, 111, 114, 105, 116, 101>>
  [] s = "Autre probleme" -> <<65, 117, 116, 114, 101, 32, 112, 114, 111, 98, 108, 101, 109, 101>>
  [] s = "Photos et avis" -> <<80, 104, 111, 116, 111, 115, 32, 101, 116, 32, 97, 118, 105, 115>>

\* str.lower() on one code point: A-Z and the Latin-1 capitals
LowerChar(c) ==
  IF c \in 65..90 THEN c + 32
  ELSE IF c \in (192..222) \ {215} THEN c + 32
  ELSE c

Lower(cs) == [i \in 1..Len(cs) |-> LowerChar(cs[i])]

\* Python's  key in text  on code-point sequences
Contains(text, key) ==
  \E i \in 0..(Len(text) - Len(key)) :
    \A j \in 1..Len(key) : text[i + j] = key[j]

RECURSIVE SumSeq(_)
SumSeq(s) == IF s = <<>> THEN 0 ELSE Head(s) + SumSeq(Tail(s))

RECURSIVE MaxSeq(_)
\* max(..., default=0)
MaxSeq(s) == IF s = <<>> THEN 0 ELSE Max(Head(s), MaxSeq(Tail(s)))

RECURSIVE Insert(_, _)
Insert(x, s) ==
  IF s = <<>> THEN <<x>>
  ELSE IF x <= Head(s) THEN <<x>> \o s
  ELSE <<Head(s)>> \o Insert(x, Tail(s))

RECURSIVE SortAsc(_)
\* sorted(list)
SortAsc(s) == IF s = <<>> THEN <<>> ELSE Insert(Head(s), SortAsc(Tail(s)))

\* ------------------------------------------------------------------ inputs
\* listing_grader.ESSENTIAL_AMENITIES, the external list of canonical names
ESSENTIAL_AMENITIES == <<"wifi", "kitchen", "air conditioning">>

\* The target and grade of the tests (MockListingData, MockGradeResult);
\* images is len(target.images).
DefaultTarget ==
  [instant_bookable |-> FALSE, images |-> 10, rating |-> 470,
   reviews_count |-> 30, price_per_night |-> 120,
   amenities |-> <<"Wifi", "Kitchen">>,
   is_superhost |-> FALSE, is_guest_favorite |-> FALSE,
   response_rate |-> 90, response_time_hours |-> 2]
DefaultGrade == [response_score |-> 75]

\* the target of test_photo_gap_detected: the mock with 5 photos
PhotoGapTarget == [DefaultTarget EXCEPT !.images = 5]

\* the target of test_rating_gap_detected: the mock rated 4.3
RatingGapTarget == [DefaultTarget EXCEPT !.rating = 430]

\* the target of test_advantage_detected: the mock rated 4.95 with both
\* badges
AdvantageTarget ==
  [DefaultTarget EXCEPT !.rating = 495, !.is_superhost = TRUE,
                        !.is_guest_favorite = TRUE]

\* a ListingData ahead of its market in every rule (no test builds it):
\* instant book, 25 photos, rated 4.95, both badges, fast replies
StrongTarget ==
  [instant_bookable |-> TRUE, images |-> 25, rating |-> 495,
   reviews_count |-> 30, price_per_night |-> 100,
   amenities |-> <<"Wifi", "Kitchen">>,
   is_superhost |-> TRUE, is_guest_favorite |-> TRUE,
   response_rate |-> 100, response_time_hours |-> 1]

\* a ListingData behind its market in every rule (no test builds it):
\* 3 photos, rated 4.3, 3 reviews, a higher price, no amenity listed
WeakTarget ==
  [instant_bookable |-> FALSE, images |-> 3, rating |-> 430,
   reviews_count |-> 3, price_per_night |-> 150,
   amenities |-> <<>>,
   is_superhost |-> FALSE, is_guest_favorite |-> FALSE,
   response_rate |-> 90, response_time_hours |-> 2]

\* the (target, grade) pairs of the tests
TestInputs ==
  { [target |-> t, grade |-> DefaultGrade] :
      t \in {DefaultTarget, PhotoGapTarget, RatingGapTarget, AdvantageTarget} }

BaseInputs ==
  { [target |-> DefaultTarget, grade |-> DefaultGrade],
    [target |-> StrongTarget, grade |-> DefaultGrade],
    [target |-> WeakTarget, grade |-> [response_score |-> 40]] }

TargetFields == DOMAIN DefaultTarget

\* the values the base pairs take, field by field
TargetSpace ==
  [instant_bookable : BOOLEAN, images : {3, 10, 25},
   rating : {430, 470, 495},
   reviews_count : {3, 30},
   price_per_night : {100, 120, 150},
   amenities : {<<"Wifi", "Kitchen">>, <<>>},
   is_superhost : BOOLEAN, is_guest_favorite : BOOLEAN,
   response_rate : {90, 100}, response_time_hours : {1, 2}]

\* GradeResultV2: only response_score is read
Grades == [response_score : {40, 75}]

\* values at and next to the cutoffs of the rules: ratings around 4.5, 4.8
\* and 4.9, review counts around 5 and around half and one and a half times
\* a mean of 50, prices around a mean of 100 (and no price), response rates
\* around 98
CutoffValues ==
  ({"rating"} \X {450, 460, 480, 490})
  \cup ({"reviews_count"} \X {4, 5, 20, 25, 75, 76})
  \cup ({"price_per_night"} \X {0, 60, 75, 80, 90, 105, 110, 130, 135})
  \cup ({"response_rate"} \X {97, 98})

\* response sub-scores around the cutoffs 50 and 70
CutoffScores == {49, 50, 60, 69, 70}

\* number of fields in which two (target, grade) pairs differ
Deviations(x, y) ==
  Cardinality({ f \in TargetFields : x.target[f] # y.target[f] })
  + (IF x.grade # y.grade THEN 1 ELSE 0)

\* a base pair with one field set to a cutoff value
CutoffInputs ==
  { [base EXCEPT !.target[fv[1]] = fv[2]] : base \in BaseInputs, fv \in CutoffValues }
  \cup { [base EXCEPT !.grade.response_score = score] :
          base \in BaseInputs, score \in CutoffScores }

\* validated (target, grade) pairs: a base pair changed in a few fields, or
\* in one field to a cutoff value, or a pair of the tests
Inputs ==
  { x \in [target : TargetSpace, grade : Grades] :
      \E base \in BaseInputs : Deviations(x, base) <= MaxDeviations }
  \cup CutoffInputs \cup TestInputs

\* Two kinds of competitor (images is len(c.images)), each with or without
\* a known price and rating (0 = unknown).
ProfileA ==
  [images |-> 20, reviews_count |-> 50, instant_bookable |-> TRUE,
   is_superhost |-> TRUE, is_guest_favorite |-> TRUE,
   amenities |-> <<"Wifi", "Kitchen", "Air conditioning">>]
ProfileB ==
  [images |-> 5, reviews_count |-> 4, instant_bookable |-> FALSE,
   is_superhost |-> FALSE, is_guest_favorite |-> FALSE,
   amenities |-> <<"Pool">>]

Competitor(profile, price, rating) ==
  [images |-> profile.images, reviews_count |-> profile.reviews_count,
   instant_bookable |-> profile.instant_bookable,
   is_superhost |-> profile.is_superhost,
   is_guest_favorite |-> profile.is_guest_favorite,
   amenities |-> profile.amenities,
   price_per_night |-> price, rating |-> rating]

CompetitorPool ==
  << Competitor(ProfileA, 100, 480), Competitor(ProfileA, 100, 0),
     Competitor(ProfileB, 100, 480), Competitor(ProfileB, 0, 0) >>

\* competitor lists of 0..MaxCompetitors records, in pool order
IndexLists(k) ==
  { f \in [1..k -> 1..Len(CompetitorPool)] :
      \A i \in 1..(k - 1) : f[i] <= f[i + 1] }

\* MockListingBasic with its defaults
ProfileMock ==
  [images |-> 15, reviews_count |-> 50, instant_bookable |-> TRUE,
   is_superhost |-> FALSE, is_guest_favorite |-> FALSE,
   amenities |-> <<"Wifi", "Kitchen", "Air conditioning">>]

\* the twenty competitors of test_instant_book_gap_detected: the first
\* sixteen have Instant Book
ScenarioA ==
  [i \in 1..20 |->
     [Competitor(ProfileMock, 100, 480) EXCEPT !.instant_bookable = (i - 1 < 16)]]

\* the twenty competitors of test_rating_gap_detected, all rated 4.8
ScenarioB == [i \in 1..20 |-> Competitor(ProfileMock, 100, 480)]

\* the twenty competitors of test_photo_gap_detected, with 20 photos each
ScenarioPhotos ==
  [i \in 1..20 |-> [Competitor(ProfileMock, 100, 480) EXCEPT !.images = 20]]

\* the twenty competitors of test_advantage_detected, all rated 4.6
ScenarioAdvantage == [i \in 1..20 |-> Competitor(ProfileMock, 100, 460)]

\* two competitors rated 4.0 and 4.2: a market below the 4.5 cutoff
LowRatedPeers ==
  << Competitor(ProfileMock, 100, 400), Competitor(ProfileMock, 100, 420) >>

\* one competitor rated 4.6, and one rated 5.0 with two reviews
PeerRated46 == << Competitor(ProfileMock, 100, 460) >>
PeerRated50 ==
  << [Competitor(ProfileMock, 100, 500) EXCEPT !.reviews_count = 2] >>

\* three competitors priced 80, 80 and 90: a mean price of 250/3
ThirdPrices ==
  << Competitor(ProfileMock, 80, 480), Competitor(ProfileMock, 80, 480),
     Competitor(ProfileMock, 90, 480) >>

\* twenty competitors of which the first `with' have Instant Book and the
\* three essential amenities and the first `badges' are guest favorites
Market(with, badges) ==
  [i \in 1..20 |->
     [Competitor(ProfileMock, 100, 480) EXCEPT
        !.instant_bookable = (i <= with),
        !.amenities = IF i <= with THEN ProfileMock.amenities ELSE <<"Pool">>,
        !.is_guest_favorite = (i <= badges)]]

\* adoption of exactly 70% and 20%, and of 65% and 15%
Market70 == Market(14, 4)
Market65 == Market(13, 3)

\* two competitors, one listing wifi under two spellings, one listing nothing
DoubleListing ==
  << [Competitor(ProfileMock, 100, 480) EXCEPT !.amenities = <<"Wifi", "WIFI">>],
     [Competitor(ProfileMock, 100, 480) EXCEPT !.amenities = <<>>] >>

ScenarioLists ==
  { ScenarioA, ScenarioB, ScenarioPhotos, ScenarioAdvantage, LowRatedPeers,
    PeerRated46, PeerRated50, ThirdPrices, Market70, Market65, DoubleListing }

CompetitorLists ==
  UNION { { [i \in 1..k |-> CompetitorPool[f[i]]] : f \in IndexLists(k) } :
          k \in 0..MaxCompetitors }
  \cup ScenarioLists

\* ------------------------------------------------- analyzer.py: data model
Gap(category, severity, title, impact_percent, fix_effort, fix_cost) ==
  [category |-> category, severity |-> severity, title |-> title,
   impact_percent |-> impact_percent,
   fix_effort |-> fix_effort, fix_cost |-> fix_cost]

\* GapAnalysis(listing_id, competitors_count) with its default fields
GapAnalysis(competitors_count) ==
  [competitors_count |-> competitors_count,
   critical_gaps |-> <<>>, important_gaps |-> <<>>, minor_gaps |-> <<>>,
   advantages |-> <<>>, estimated_visibility_loss |-> 0]

\* --------------------------------------- GapAnalyzer._calculate_market_stats
Field(cs, f) == [i \in 1..Len(cs) |-> cs[i][f]]

\* [x for x in xs if x > 0]
Positive(xs) == SelectSeq(xs, LAMBDA x : x > 0)

\* sum(1 for c in competitors if c.<flag>)
CountTrue(bs) == Len(SelectSeq(bs, LAMBDA b : b))

\* sorted([...prices > 0...])[n // 2] raises IndexError when the index is
\* past the end of the filtered list
MedianPriceRaises(cs) ==
  Len(Positive(Field(cs, "price_per_night"))) <= Len(cs) \div 2

\* a rating, held in hundredths, as the float the program holds
FloatRating(rating) == Hundredths[rating]

CalculateMarketStats(cs) ==
  LET n == Len(cs)
      ratings == Positive(Field(cs, "rating"))
      prices == Positive(Field(cs, "price_per_night"))
  IN [avg_photos |-> Frac(SumSeq(Field(cs, "images")), n),
      avg_rating |-> FDiv(FSum([i \in 1..Len(ratings) |-> FloatRating(ratings[i])]),
                          Fl(I(Max(1, Len(ratings))))),
      avg_reviews |-> Frac(SumSeq(Field(cs, "reviews_count")), n),
      avg_price |-> FDiv(FSum([i \in 1..Len(prices) |-> Fl(I(prices[i]))]),
                         Fl(I(Max(1, Len(prices))))),
      instant_book_pct |->
        Frac(CountTrue(Field(cs, "instant_bookable")) * 100, n),
      superhost_pct |-> Frac(CountTrue(Field(cs, "is_superhost")) * 100, n),
      guest_favorite_pct |->
        Frac(CountTrue(Field(cs, "is_guest_favorite")) * 100, n),
      max_photos |-> MaxSeq(Field(cs, "images")),
      max_reviews |-> MaxSeq(Field(cs, "reviews_count")),
      median_price |-> SortAsc(prices)[(n \div 2) + 1]]

\* ------------------------------------------------- GapAnalyzer: the rules
\* Each rule takes the result built so far and returns it with at most one
\* more finding (result.<bucket>.append(Gap(...))).
AppendGap(result, bucket, gap) == [result EXCEPT ![bucket] = Append(@, gap)]

\* the instant-book rule with `if' in place of the first `elif'
AnalyzeInstantBook_IfIf(target, market, result) ==
  LET r1 == IF ~target.instant_bookable /\ Ge(market.instant_book_pct, I(70))
            THEN AppendGap(result, "critical_gaps",
                   Gap("settings", "critical", "Instant Book desactive", -15, "easy", "free"))
            ELSE result
  IN IF ~target.instant_bookable /\ Ge(market.instant_book_pct, I(50))
     THEN AppendGap(r1, "important_gaps",
            Gap("settings", "important", "Instant Book desactive", -10, "easy", "free"))
     ELSE IF target.instant_bookable
     THEN AppendGap(r1, "advantages",
            Gap("settings", "advantage", "Instant Book active", 5, "none", "free"))
     ELSE r1

\* the instant-book rule with > in place of >= at both cutoffs
AnalyzeInstantBook_StrictCutoff(target, market, result) ==
  IF ~target.instant_bookable /\ Gt(market.instant_book_pct, I(70))
  THEN AppendGap(result, "critical_gaps",
         Gap("settings", "critical", "Instant Book desactive", -15, "easy", "free"))
  ELSE IF ~target.instant_bookable /\ Gt(market.instant_book_pct, I(50))
  THEN AppendGap(result, "important_gaps",
         Gap("settings", "important", "Instant Book desactive", -10, "easy", "free"))
  ELSE IF target.instant_bookable
  THEN AppendGap(result, "advantages",
         Gap("settings", "advantage", "Instant Book active", 5, "none", "free"))
  ELSE result

AnalyzeInstantBook(target, market, result) ==
  IF ~target.instant_bookable /\ Ge(market.instant_book_pct, I(70))
  THEN AppendGap(result, "critical_gaps",
         Gap("settings", "critical", "Instant Book desactive", -15, "easy", "free"))
  ELSE IF ~target.instant_bookable /\ Ge(market.instant_book_pct, I(50))
  THEN AppendGap(result, "important_gaps",
         Gap("settings", "important", "Instant Book desactive", -10, "easy", "free"))
  ELSE IF target.instant_bookable
  THEN AppendGap(result, "advantages",
         Gap("settings", "advantage", "Instant Book active", 5, "none", "free"))
  ELSE result

\* the photo rule with <= in place of < at the cutoffs -10 and -5
AnalyzePhotos_LeCutoff(target, market, result) ==
  LET photo_count == target.images
      avg == market.avg_photos
      diff == Sub(I(photo_count), avg)
  IN IF Le(diff, I(-10))
     THEN AppendGap(result, "critical_gaps",
            Gap("photos", "critical", "Nombre de photos insuffisant", -15, "medium", "low"))
     ELSE IF Le(diff, I(-5))
     THEN AppendGap(result, "important_gaps",
            Gap("photos", "important", "Photos en dessous de la moyenne", -8, "easy", "free"))
     ELSE IF Gt(diff, I(5))
     THEN AppendGap(result, "advantages",
            Gap("photos", "advantage", "Excellent nombre de photos", 5, "none", "free"))
     ELSE result

AnalyzePhotos(target, market, result) ==
  LET photo_count == target.images
      avg == market.avg_photos
      diff == Sub(I(photo_count), avg)
  IN IF Lt(diff, I(-10))
     THEN AppendGap(result, "critical_gaps",
            Gap("photos", "critical", "Nombre de photos insuffisant", -15, "medium", "low"))
     ELSE IF Lt(diff, I(-5))
     THEN AppendGap(result, "important_gaps",
            Gap("photos", "important", "Photos en dessous de la moyenne", -8, "easy", "free"))
     ELSE IF Gt(diff, I(5))
     THEN AppendGap(result, "advantages",
            Gap("photos", "advantage", "Excellent nombre de photos", 5, "none", "free"))
     ELSE result

\* the branches as separate ifs: a critical rating does not stop the
\* comparison with the market
AnalyzeRating_IfIf(target, grade, market, result) ==
  LET rating == target.rating
      rating_diff == FSub(FloatRating(rating), market.avg_rating)
      r1 == IF rating < 450
            THEN AppendGap(result, "critical_gaps",
                   Gap("reviews", "critical", "Rating critique", -25, "hard", "free"))
            ELSE result
  IN IF rating < 480 /\ FLt(rating_diff, Hundredths[-20]) /\ rating >= 450
     THEN AppendGap(r1, "important_gaps",
            Gap("reviews", "important", "Rating en dessous du marche", -12, "hard", "free"))
     ELSE IF rating >= 490
     THEN AppendGap(r1, "advantages",
            Gap("reviews", "advantage", "Excellent rating", 10, "none", "free"))
     ELSE IF FGt(rating_diff, Hundredths[10])
     THEN AppendGap(r1, "advantages",
            Gap("reviews", "advantage", "Rating superieur au marche", 5, "none", "free"))
     ELSE r1

\* target.rating is held in hundredths: the floats of two such decimals
\* compare as the decimals do (4.5 -> 450, 4.8 -> 480, 4.9 -> 490);
\* rating_diff is the float the subtraction gives
AnalyzeRating(target, grade, market, result) ==
  LET rating == target.rating
      avg_rating == market.avg_rating
      rating_diff == FSub(FloatRating(rating), avg_rating)
  IN IF rating < 450
     THEN AppendGap(result, "critical_gaps",
            Gap("reviews", "critical", "Rating critique", -25, "hard", "free"))
     ELSE IF rating < 480 /\ FLt(rating_diff, Hundredths[-20])
     THEN AppendGap(result, "important_gaps",
            Gap("reviews", "important", "Rating en dessous du marche", -12, "hard", "free"))
     ELSE IF rating >= 490
     THEN AppendGap(result, "advantages",
            Gap("reviews", "advantage", "Excellent rating", 10, "none", "free"))
     ELSE IF FGt(rating_diff, Hundredths[10])
     THEN AppendGap(result, "advantages",
            Gap("reviews", "advantage", "Rating superieur au marche", 5, "none", "free"))
     ELSE result

\* the response rule with <= in place of < at both cutoffs of the sub-score
AnalyzeResponse_LeCutoff(target, grade, market, result) ==
  IF grade.response_score <= 50
  THEN AppendGap(result, "critical_gaps",
         Gap("response", "critical", "Temps de reponse trop long", -15, "easy", "free"))
  ELSE IF grade.response_score <= 70
  THEN AppendGap(result, "important_gaps",
         Gap("response", "important", "Temps de reponse a ameliorer", -8, "easy", "free"))
  ELSE IF target.response_rate >= 98 /\ target.response_time_hours <= 1
  THEN AppendGap(result, "advantages",
         Gap("response", "advantage", "Excellent temps de reponse", 5, "none", "free"))
  ELSE result

AnalyzeResponse(target, grade, market, result) ==
  IF grade.response_score < 50
  THEN AppendGap(result, "critical_gaps",
         Gap("response", "critical", "Temps de reponse trop long", -15, "easy", "free"))
  ELSE IF grade.response_score < 70
  THEN AppendGap(result, "important_gaps",
         Gap("response", "important", "Temps de reponse a ameliorer", -8, "easy", "free"))
  ELSE IF target.response_rate >= 98 /\ target.response_time_hours <= 1
  THEN AppendGap(result, "advantages",
         Gap("response", "advantage", "Excellent temps de reponse", 5, "none", "free"))
  ELSE result

AnalyzePricing(target, market, result) ==
  LET avg_price == market.avg_price
  IN IF FLe(avg_price, Fl(I(0))) \/ target.price_per_night <= 0
     THEN result
     ELSE
       LET price_diff_pct ==
             FDiv(FSub(Fl(I(target.price_per_night)), avg_price), avg_price)
       IN IF FGt(price_diff_pct, Hundredths[35])
          THEN AppendGap(result, "critical_gaps",
                 Gap("pricing", "critical", "Prix tres au-dessus du marche", -20, "easy", "free"))
          ELSE IF FGt(price_diff_pct, Hundredths[20])
          THEN AppendGap(result, "important_gaps",
                 Gap("pricing", "important", "Prix au-dessus du marche", -12, "easy", "free"))
          ELSE IF /\ FLe(Hundredths[-10], price_diff_pct)
                  /\ FLe(price_diff_pct, Hundredths[5])
          THEN AppendGap(result, "advantages",
                 Gap("pricing", "advantage", "Prix competitif", 5, "none", "free"))
          ELSE IF FLt(price_diff_pct, Hundredths[-25])
          THEN AppendGap(result, "minor_gaps",
                 Gap("pricing", "minor", "Prix potentiellement trop bas", 0, "easy", "free"))
          ELSE result

\* amenity_freq: lower-cased label -> number of occurrences over all
\* competitors (every list entry counts, also a repeated one)
AmenityEntries(competitors) ==
  UNION { { <<i, j>> : j \in 1..Len(competitors[i].amenities) } :
          i \in 1..Len(competitors) }

AmenityFreq(competitors) ==
  LET entries == AmenityEntries(competitors)
      lower == [ij \in entries |->
                  Lower(Chars(competitors[ij[1]].amenities[ij[2]]))]
  IN [a \in { lower[ij] : ij \in entries } |->
        Cardinality({ ij \in entries : lower[ij] = a })]

\* the labels of missing_critical (distinct dict keys, so a set)
MissingCritical(target, competitors) ==
  LET amenity_freq == AmenityFreq(competitors)
      n == Len(competitors)
      target_amenities ==
        { Lower(Chars(target.amenities[j])) : j \in 1..Len(target.amenities) }
  IN { amenity \in DOMAIN amenity_freq :
         /\ Ge(Frac(amenity_freq[amenity] * 100, n), I(70))
         /\ amenity \notin target_amenities
         /\ \E k \in 1..Len(ESSENTIAL_AMENITIES) :
              Contains(amenity, Chars(ESSENTIAL_AMENITIES[k])) }

AnalyzeAmenities(target, competitors, result) ==
  LET missing_critical == MissingCritical(target, competitors)
  IN IF Cardinality(missing_critical) >= 3
     THEN AppendGap(result, "critical_gaps",
            Gap("amenities", "critical", "Equipements essentiels manquants", -12, "medium", "medium"))
     ELSE IF Cardinality(missing_critical) > 0
     THEN AppendGap(result, "important_gaps",
            Gap("amenities", "important", "Equipements courants manquants", -6, "medium", "low"))
     ELSE result

\* the superhost finding with the sign of its impact lost
AnalyzeSuperhost_PositiveGap(target, market, result) ==
  LET superhost_pct == market.superhost_pct
  IN IF target.is_superhost
     THEN AppendGap(result, "advantages",
            Gap("badges", "advantage", "Statut Superhost", 8, "none", "free"))
     ELSE IF Ge(superhost_pct, I(50))
     THEN AppendGap(result, "important_gaps",
            Gap("badges", "important", "Pas de statut Superhost", 8, "hard", "free"))
     ELSE result

AnalyzeSuperhost(target, market, result) ==
  LET superhost_pct == market.superhost_pct
  IN IF target.is_superhost
     THEN AppendGap(result, "advantages",
            Gap("badges", "advantage", "Statut Superhost", 8, "none", "free"))
     ELSE IF Ge(superhost_pct, I(50))
     THEN AppendGap(result, "important_gaps",
            Gap("badges", "important", "Pas de statut Superhost", -8, "hard", "free"))
     ELSE result

\* the guest-favorite rule with > in place of >= at both cutoffs
AnalyzeGuestFavorite_StrictCutoff(target, market, result) ==
  LET gf_pct == market.guest_favorite_pct
  IN IF target.is_guest_favorite
     THEN AppendGap(result, "advantages",
            Gap("badges", "advantage", "Badge Guest Favorite", 12, "none", "free"))
     ELSE IF Gt(gf_pct, I(20)) /\ target.rating > 480
     THEN AppendGap(result, "minor_gaps",
            Gap("badges", "minor", "Guest Favorite atteignable", -5, "medium", "free"))
     ELSE result

AnalyzeGuestFavorite(target, market, result) ==
  LET gf_pct == market.guest_favorite_pct
  IN IF target.is_guest_favorite
     THEN AppendGap(result, "advantages",
            Gap("badges", "advantage", "Badge Guest Favorite", 12, "none", "free"))
     ELSE IF Ge(gf_pct, I(20)) /\ target.rating >= 480
     THEN AppendGap(result, "minor_gaps",
            Gap("badges", "minor", "Guest Favorite atteignable", -5, "medium", "free"))
     ELSE result

\* the review-count rule with the comparison against the market ahead of
\* the floor of 5 reviews
AnalyzeReviewsCount_MarketFirst(target, market, result) ==
  LET avg_reviews == market.avg_reviews
  IN IF Gt(I(target.reviews_count), Mul(avg_reviews, Frac(15, 10)))
     THEN AppendGap(result, "advantages",
            Gap("reviews", "advantage", "Excellent nombre d'avis", 5, "none", "free"))
     ELSE IF target.reviews_count < 5
     THEN AppendGap(result, "critical_gaps",
            Gap("reviews", "critical", "Trop peu d'avis", -20, "hard", "free"))
     ELSE IF Lt(I(target.reviews_count), Mul(avg_reviews, Frac(5, 10)))
     THEN AppendGap(result, "important_gaps",
            Gap("reviews", "important", "Nombre d'avis en dessous du marche", -10, "hard", "free"))
     ELSE result

AnalyzeReviewsCount(target, market, result) ==
  LET avg_reviews == market.avg_reviews
  IN IF target.reviews_count < 5
     THEN AppendGap(result, "critical_gaps",
            Gap("reviews", "critical", "Trop peu d'avis", -20, "hard", "free"))
     ELSE IF Lt(I(target.reviews_count), Mul(avg_reviews, Frac(5, 10)))
     THEN AppendGap(result, "important_gaps",
            Gap("reviews", "important", "Nombre d'avis en dessous du marche", -10, "hard", "free"))
     ELSE IF Gt(I(target.reviews_count), Mul(avg_reviews, Frac(15, 10)))
     THEN AppendGap(result, "advantages",
            Gap("reviews", "advantage", "Excellent nombre d'avis", 5, "none", "free"))
     ELSE result

\* ----------------------------------------------------- GapAnalyzer.analyze
\* the three loss buckets, in the order result.critical_gaps +
\* result.important_gaps + result.minor_gaps
LossGaps(result) ==
  result.critical_gaps \o result.important_gaps \o result.minor_gaps

SumAbsImpact(gaps) == SumSeq([i \in 1..Len(gaps) |-> Abs(gaps[i].impact_percent)])

\* the loss summed over all four buckets
WithLoss_CountsAdvantages(result) ==
  [result EXCEPT !.estimated_visibility_loss =
     SumAbsImpact(LossGaps(result) \o result.advantages)]

WithLoss(result) ==
  [result EXCEPT !.estimated_visibility_loss = SumAbsImpact(LossGaps(result))]

\* the nine rules in the order analyze calls them
RunRules(target, competitors, grade, market, result) ==
  LET r1 == AnalyzeInstantBook(target, market, result)
      r2 == AnalyzePhotos(target, market, r1)
      r3 == AnalyzeRating(target, grade, market, r2)
      r4 == AnalyzeResponse(target, grade, market, r3)
      r5 == AnalyzePricing(target, market, r4)
      r6 == AnalyzeAmenities(target, competitors, r5)
      r7 == AnalyzeSuperhost(target, market, r6)
      r8 == AnalyzeGuestFavorite(target, market, r7)
      r9 == AnalyzeReviewsCount(target, market, r8)
  IN r9

\* ------------------------------------------------- actions.py: data model
\* ACTION_TEMPLATES in dict (insertion) order; steps names the step list
ACTION_TEMPLATES ==
  << [key |-> "instant book", title |-> "Activer Instant Book",
      category |-> "settings", time_minutes |-> 5, cost_eur |-> 0,
      steps |-> "steps: instant book"],
     [key |-> "photos", title |-> "Ajouter des photos de qualite",
      category |-> "content", time_minutes |-> 180, cost_eur |-> 0,
      steps |-> "steps: photos"],
     [key |-> "temps de reponse", title |-> "Ameliorer le temps de reponse",
      category |-> "response", time_minutes |-> 15, cost_eur |-> 0,
      steps |-> "steps: temps de reponse"],
     [key |-> "rating", title |-> "Ameliorer le rating",
      category |-> "reviews", time_minutes |-> 120, cost_eur |-> 50,
      steps |-> "steps: rating"],
     [key |-> "avis", title |-> "Obtenir plus d'avis",
      category |-> "reviews", time_minutes |-> 30, cost_eur |-> 0,
      steps |-> "steps: avis"],
     [key |-> "prix", title |-> "Ajuster le prix",
      category |-> "pricing", time_minutes |-> 20, cost_eur |-> 0,
      steps |-> "steps: prix"],
     [key |-> "equipements", title |-> "Ajouter des equipements essentiels",
      category |-> "amenities", time_minutes |-> 60, cost_eur |-> 150,
      steps |-> "steps: equipements"],
     [key |-> "superhost", title |-> "Atteindre le statut Superhost",
      category |-> "badges", time_minutes |-> 0, cost_eur |-> 0,
      steps |-> "steps: superhost"],
     [key |-> "guest favorite", title |-> "Viser le badge Guest Favorite",
      category |-> "badges", time_minutes |-> 0, cost_eur |-> 0,
      steps |-> "steps: guest favorite"] >>

\* ActionPlan(listing_id) with its default fields
ActionPlan ==
  [actions |-> <<>>, quick_wins |-> <<>>, total_time_hours |-> I(0),
   total_cost_eur |-> 0, potential_gain_percent |-> 0]

\* the 0.1 added to every effort, as in the test's formula
CalculateRoi_AddsFloor(action) ==
  LET effort == Add(Add(Frac(action.time_minutes, 60), Frac(action.cost_eur, 100)),
                    Frac(1, 10))
  IN [action EXCEPT !.roi_score = Div(I(Abs(action.impact_percent)), effort)]

\* the effort with time_minutes taken as hours
CalculateRoi_MinutesAsHours(action) ==
  LET effort0 == Add(I(action.time_minutes), Frac(action.cost_eur, 100))
      effort == IF Le(effort0, I(0)) THEN Frac(1, 10) ELSE effort0
  IN [action EXCEPT !.roi_score = Div(I(Abs(action.impact_percent)), effort)]

\* Action.calculate_roi
CalculateRoi(action) ==
  LET effort0 == Add(Frac(action.time_minutes, 60), Frac(action.cost_eur, 100))
      effort == IF Le(effort0, I(0)) THEN Frac(1, 10) ELSE effort0
  IN [action EXCEPT !.roi_score = Div(I(Abs(action.impact_percent)), effort)]

\* "under 30 minutes" read strictly
IsQuickWin_Strict(action) == action.time_minutes < 30 /\ action.cost_eur = 0

\* Action.is_quick_win
IsQuickWin(action) == action.time_minutes <= 30 /\ action.cost_eur = 0

\* ------------------------------------- ActionPlanGenerator._create_action
\* the class attribute ActionPlanGenerator.ACTION_TEMPLATES as the calls
\* find it
VARIABLE templates

\* the loop without its break: the last matching key wins
FindTemplate_LastMatch(gap) ==
  LET gap_title_lower == Lower(Chars(gap.title))
      hits == { k \in 1..Len(templates) :
                  Contains(gap_title_lower, Chars(templates[k].key)) }
  IN IF hits = {}
     THEN [key |-> "", title |-> "Corriger: " \o gap.title,
           category |-> gap.category, time_minutes |-> 60, cost_eur |-> 0,
           steps |-> "steps: default"]
     ELSE templates[CHOOSE k \in hits : \A h \in hits : k >= h]

\* the template of the first key, in dict order, found in the lower-cased
\* title; the default template when there is none
FindTemplate(gap) ==
  LET gap_title_lower == Lower(Chars(gap.title))
      hits == { k \in 1..Len(templates) :
                  Contains(gap_title_lower, Chars(templates[k].key)) }
  IN IF hits = {}
     THEN [key |-> "", title |-> "Corriger: " \o gap.title,
           category |-> gap.category, time_minutes |-> 60, cost_eur |-> 0,
           steps |-> "steps: default"]
     ELSE templates[CHOOSE k \in hits : \A h \in hits : k <= h]

\* f"action_{index + 1:02d}"
ActionId(index) ==
  "action_" \o (IF index + 1 < 10 THEN "0" ELSE "") \o ToString(index + 1)

\* _create_action copying the finding's impact with its sign
CreateAction_SignedImpact(gap, priority, index) ==
  LET template == FindTemplate(gap)
  IN [id |-> ActionId(index), title |-> template.title,
      category |-> template.category, priority |-> priority,
      time_minutes |-> template.time_minutes, cost_eur |-> template.cost_eur,
      impact_percent |-> gap.impact_percent, steps |-> template.steps,
      gap_title |-> gap.title, roi_score |-> I(0)]

CreateAction(gap, priority, index) ==
  LET template == FindTemplate(gap)
  IN [id |-> ActionId(index), title |-> template.title,
      category |-> template.category, priority |-> priority,
      time_minutes |-> template.time_minutes, cost_eur |-> template.cost_eur,
      impact_percent |-> Abs(gap.impact_percent), steps |-> template.steps,
      gap_title |-> gap.title, roi_score |-> I(0)]

\* ------------------------------------------- ActionPlanGenerator.generate
\* all_gaps with the advantages appended as "low" priority pairs
AllGaps_WithAdvantages(ga) ==
  [i \in 1..Len(ga.critical_gaps) |-> <<ga.critical_gaps[i], "critical">>]
  \o [i \in 1..Len(ga.important_gaps) |-> <<ga.important_gaps[i], "high">>]
  \o [i \in 1..Len(ga.minor_gaps) |-> <<ga.minor_gaps[i], "medium">>]
  \o [i \in 1..Len(ga.advantages) |-> <<ga.advantages[i], "low">>]

\* all_gaps with the minor findings paired with "low"
AllGaps_MinorAsLow(ga) ==
  [i \in 1..Len(ga.critical_gaps) |-> <<ga.critical_gaps[i], "critical">>]
  \o [i \in 1..Len(ga.important_gaps) |-> <<ga.important_gaps[i], "high">>]
  \o [i \in 1..Len(ga.minor_gaps) |-> <<ga.minor_gaps[i], "low">>]

\* all_gaps: (gap, priority) pairs, critical then important then minor
AllGaps(ga) ==
  [i \in 1..Len(ga.critical_gaps) |-> <<ga.critical_gaps[i], "critical">>]
  \o [i \in 1..Len(ga.important_gaps) |-> <<ga.important_gaps[i], "high">>]
  \o [i \in 1..Len(ga.minor_gaps) |-> <<ga.minor_gaps[i], "medium">>]

RECURSIVE InsertByRoi_BeforeEqual(_, _)
\* a goes in front of the actions whose roi_score equals its own
InsertByRoi_BeforeEqual(a, sorted) ==
  IF sorted = <<>> THEN <<a>>
  ELSE IF Gt(Head(sorted).roi_score, a.roi_score)
       THEN <<Head(sorted)>> \o InsertByRoi_BeforeEqual(a, Tail(sorted))
       ELSE <<a>> \o sorted

RECURSIVE InsertByRoi(_, _)
\* a goes behind every action whose roi_score is >= its own
InsertByRoi(a, sorted) ==
  IF sorted = <<>> THEN <<a>>
  ELSE IF Ge(Head(sorted).roi_score, a.roi_score)
       THEN <<Head(sorted)>> \o InsertByRoi(a, Tail(sorted))
       ELSE <<a>> \o sorted

RECURSIVE SortByRoi(_, _)
\* actions.sort(key=roi_score, reverse=True): stable, highest first
SortByRoi(todo, sorted) ==
  IF todo = <<>> THEN sorted
  ELSE SortByRoi(Tail(todo), InsertByRoi(Head(todo), sorted))

\* generate with _create_action returning None on a template miss: the
\* finding is skipped by  if action:
GeneratePlan_SkipsUnmatched(ga) ==
  LET all_gaps == AllGaps(ga)
      matched == SelectSeq([i \in 1..Len(all_gaps) |-> <<all_gaps[i], i>>],
                           LAMBDA gi : FindTemplate(gi[1][1]).key # "")
      created == [j \in 1..Len(matched) |->
                    CalculateRoi(CreateAction(matched[j][1][1], matched[j][1][2],
                                              matched[j][2] - 1))]
      actions == SortByRoi(created, <<>>)
  IN [actions |-> actions,
      quick_wins |-> SelectSeq(actions, IsQuickWin),
      total_time_hours |->
        Frac(SumSeq([i \in 1..Len(actions) |-> actions[i].time_minutes]), 60),
      total_cost_eur |-> SumSeq([i \in 1..Len(actions) |-> actions[i].cost_eur]),
      potential_gain_percent |->
        SumSeq([i \in 1..Len(actions) |-> actions[i].impact_percent])]

\* generate with the totals taken over plan.quick_wins
GeneratePlan_TotalsOverQuickWins(ga) ==
  LET all_gaps == AllGaps(ga)
      created == [i \in 1..Len(all_gaps) |->
                    CalculateRoi(CreateAction(all_gaps[i][1], all_gaps[i][2], i - 1))]
      actions == SortByRoi(created, <<>>)
      quick == SelectSeq(actions, IsQuickWin)
  IN [actions |-> actions,
      quick_wins |-> quick,
      total_time_hours |->
        Frac(SumSeq([i \in 1..Len(quick) |-> quick[i].time_minutes]), 60),
      total_cost_eur |-> SumSeq([i \in 1..Len(quick) |-> quick[i].cost_eur]),
      potential_gain_percent |->
        SumSeq([i \in 1..Len(quick) |-> quick[i].impact_percent])]

\* ActionPlanGenerator.generate: the plan returned
GeneratePlan(ga) ==
  LET all_gaps == AllGaps(ga)
      created == [i \in 1..Len(all_gaps) |->
                    CalculateRoi(CreateAction(all_gaps[i][1], all_gaps[i][2], i - 1))]
      actions == SortByRoi(created, <<>>)
  IN [actions |-> actions,
      quick_wins |-> SelectSeq(actions, IsQuickWin),
      total_time_hours |->
        Frac(SumSeq([i \in 1..Len(actions) |-> actions[i].time_minutes]), 60),
      total_cost_eur |-> SumSeq([i \in 1..Len(actions) |-> actions[i].cost_eur]),
      potential_gain_percent |->
        SumSeq([i \in 1..Len(actions) |-> actions[i].impact_percent])]

\* ------------------------------------------------ hand-built gap analyses
\* generate is a public method: a caller may pass a GapAnalysis it built
\* itself.  Findings of a few titles and impacts, MaxGaps of them at most
\* over the three loss buckets, with or without one advantage.
HandTitles == {"Instant Book desactive", "Photos et avis", "Autre probleme"}
HandFindings ==
  { <<"Instant Book desactive", -15>>, <<"Photos et avis", -10>>,
    <<"Autre probleme", -10>>, <<"Autre probleme", -15>> }

HandGap(title, impact, severity) ==
  Gap("custom", severity, title, impact, "easy", "free")

Severities == <<"critical", "important", "minor">>

\* k findings, each with its bucket (1..3), buckets non-decreasing
HandChoices(k) ==
  { f \in [1..k -> HandFindings \X (1..3)] :
      \A i \in 1..(k - 1) : f[i][2] <= f[i + 1][2] }

HandBucket(f, b) ==
  LET mine == SelectSeq(f, LAMBDA c : c[2] = b)
  IN [i \in 1..Len(mine) |-> HandGap(mine[i][1][1], mine[i][1][2], Severities[b])]

HandAnalysis(f, advantages) ==
  LET r == [competitors_count |-> 1,
            critical_gaps |-> HandBucket(f, 1),
            important_gaps |-> HandBucket(f, 2),
            minor_gaps |-> HandBucket(f, 3),
            advantages |-> advantages,
            estimated_visibility_loss |-> 0]
  IN WithLoss(r)

HandAdvantages ==
  { <<>>, <<Gap("custom", "advantage", "Statut Superhost", 8, "none", "free")>> }

HandAnalyses ==
  { HandAnalysis(f, adv) :
      f \in UNION { HandChoices(k) : k \in 0..MaxGaps }, adv \in HandAdvantages }

\* ------------------------------------ doctor.py: VisibilityDoctor (strings)
\* url_or_id as the sequence of its characters; the inputs are ASCII, where
\* str.isdigit and the regex class \d both mean 0-9
DigitChars == {"0", "1", "2", "3", "4", "5", "6", "7", "8", "9"}

\* what may precede the path: nothing, the hosts of the tests, a stray character
UrlPrefixes ==
  { <<>>,
    <<"h", "t", "t", "p", "s", ":", "/", "/", "w", "w", "w", ".", "a", "i", "r", "b", "n", "b", ".", "c", "o", "m">>,
    <<"h", "t", "t", "p", "s", ":", "/", "/", "a", "i", "r", "b", "n", "b", ".", "f", "r">>,
    <<"a", "i", "r", "b", "n", "b", ".", "c", "o", "m">>,
    <<"x">> }

\* the path in front of the id: the one of the tests and two near misses
UrlPaths ==
  { <<>>,
    <<"/", "r", "o", "o", "m", "s", "/">>,
    <<"/", "r", "o", "o", "m", "/">>,
    <<"r", "o", "o", "m", "s", "/">> }

\* the id: the one of the tests, one digit, a digit and a letter
UrlIds ==
  { <<>>,
    <<"1", "2", "3", "4", "5", "6", "7", "8">>,
    <<"7">>,
    <<"1", "a">> }

\* what may follow the id
UrlSuffixes ==
  { <<>>,
    <<"?", "a", "d", "u", "l", "t", "s", "=", "2">>,
    <<"/", "r", "o", "o", "m", "s", "/", "4", "5">>,
    <<"-">> }


\* "not-a-valid-url" of test_invalid_url_raises_error
NotAValidUrl ==
  <<"n", "o", "t", "-", "a", "-", "v", "a", "l", "i", "d", "-", "u", "r", "l">>

UrlInputs ==
  { a \o b \o c \o d : a \in UrlPrefixes, b \in UrlPaths, c \in UrlIds, d \in UrlSuffixes }
  \cup {NotAValidUrl}

\* str.isdigit(): not empty and digits only
IsDigit(s) == Len(s) > 0 /\ \A i \in 1..Len(s) : s[i] \in DigitChars

\* the literal lit is in s at position i
LiteralAt(s, i, lit) ==
  /\ i + Len(lit) - 1 <= Len(s)
  /\ \A j \in 1..Len(lit) : s[i + j - 1] = lit[j]

RECURSIVE DigitRun(_, _)
\* (\d+) is greedy: the longest run of digits from position i on
DigitRun(s, i) ==
  IF i > Len(s) \/ s[i] \notin DigitChars THEN <<>>
  ELSE <<s[i]>> \o DigitRun(s, i + 1)

RoomsLiteral == <<"/", "r", "o", "o", "m", "s", "/">>
AirbnbLiteral == <<"a", "i", "r", "b", "n", "b", ".">>

\* the places where  /rooms/(\d+)  matches
RoomsMatches(s) ==
  { i \in 1..Len(s) : LiteralAt(s, i, RoomsLiteral) /\ DigitRun(s, i + 7) # <<>> }

\* the places j of the /rooms/ part where  airbnb\.[^/]+/rooms/(\d+)  matches
AirbnbMatches(s) ==
  { j \in RoomsMatches(s) :
      \E i \in 1..Len(s) :
        /\ LiteralAt(s, i, AirbnbLiteral)
        /\ i + 7 < j
        /\ \A k \in (i + 7)..(j - 1) : s[k] # "/" }

\* re.search(pattern, s).group(1) for the two patterns in turn: the match
\* that starts first; <<>> stands for no match (a group is never empty)
SearchPatterns(s) ==
  IF RoomsMatches(s) # {}
  THEN DigitRun(s, 7 + CHOOSE i \in RoomsMatches(s) : \A h \in RoomsMatches(s) : i <= h)
  ELSE IF AirbnbMatches(s) # {}
  THEN DigitRun(s, 7 + CHOOSE j \in AirbnbMatches(s) : \A h \in AirbnbMatches(s) : j <= h)
  ELSE <<>>

\* the patterns tried with re.match, at the start of the string only
ExtractListingId_MatchAtStart(url_or_id) ==
  IF IsDigit(url_or_id) THEN [raised |-> FALSE, value |-> url_or_id]
  ELSE IF 1 \in RoomsMatches(url_or_id)
  THEN [raised |-> FALSE, value |-> DigitRun(url_or_id, 8)]
  ELSE [raised |-> TRUE, value |-> <<>>]

\* VisibilityDoctor._extract_listing_id: the id, or ValueError raised
ExtractListingId(url_or_id) ==
  IF IsDigit(url_or_id) THEN [raised |-> FALSE, value |-> url_or_id]
  ELSE IF SearchPatterns(url_or_id) # <<>>
  THEN [raised |-> FALSE, value |-> SearchPatterns(url_or_id)]
  ELSE [raised |-> TRUE, value |-> <<>>]

\* An Optional[float] coordinate of ListingDetails, in hundredths of a
\* degree: <<>> is None, <<x>> is the float x.
None == <<>>

\* the latitudes and longitudes get_listing_details may answer with
Latitudes == {None, <<0>>, <<4886>>}
Longitudes == {None, <<0>>, <<235>>}

\* bool(x) of an Optional[float]: None and 0.0 are false
Truthy(x) == x # None /\ x[1] # 0

\* a doctor call that has not been made
NoDoctor ==
  [url_or_id |-> <<>>, compare_market |-> FALSE, listing_id |-> <<>>,
   error |-> "none", grader_calls |-> 0, scraper_calls |-> 0,
   latitude |-> None, longitude |-> None]

\* what search_by_bounds may return once the target is filtered out
SearchResults == {<<>>, ScenarioA}

\* ------------------------------------------------------------------- state
VARIABLES
  pc,            \* "start", "analyzed", "raised", "built" or "planned"
  target,        \* the arguments of the analyze call
  competitors,
  grade,
  result,        \* the GapAnalysis analyze returned
  error,         \* the exception analyze raised, "none" if it returned
  stats_calls,   \* number of _calculate_market_stats calls made by analyze
  gap_analysis,  \* the argument of the generate call
  plan,          \* the ActionPlan generate returned
  doctor         \* the VisibilityDoctor.analyze call: its arguments, the
                 \* listing id, its error and the calls made to the grader
                 \* and the scraper

vars == <<pc, target, competitors, grade, result, error, stats_calls,
          gap_analysis, plan, templates, doctor>>

\* a caller about to run the pipeline on (target, competitors, grade)
InitPipeline ==
  /\ pc = "start"
  /\ \E x \in Inputs : target = x.target /\ grade = x.grade
  /\ competitors \in CompetitorLists
  /\ gap_analysis = GapAnalysis(0)
  /\ doctor = NoDoctor

\* a caller about to pass a GapAnalysis of its own to generate
InitBuilt ==
  /\ pc = "built"
  /\ target = DefaultTarget
  /\ competitors = <<>>
  /\ grade = DefaultGrade
  /\ gap_analysis \in HandAnalyses
  /\ doctor = NoDoctor

\* a caller about to run VisibilityDoctor.analyze(url_or_id, compare_market);
\* the scraper and the grader will answer with the listing and the grade of
\* the tests
InitDoctor ==
  /\ pc = "doctor"
  /\ target = DefaultTarget
  /\ competitors = <<>>
  /\ grade = DefaultGrade
  /\ gap_analysis = GapAnalysis(0)
  /\ \E u \in UrlInputs, cm \in BOOLEAN :
       doctor = [NoDoctor EXCEPT !.url_or_id = u, !.compare_market = cm]

Init ==
  /\ InitPipeline \/ InitBuilt \/ InitDoctor
  /\ result = GapAnalysis(0)
  /\ error = "none"
  /\ stats_calls = 0
  /\ plan = ActionPlan
  /\ templates = ACTION_TEMPLATES

\* analyze with the market statistics computed before the empty-list guard
Analyze_StatsBeforeGuard ==
  /\ pc = "start"
  /\ IF Len(competitors) = 0
     THEN /\ result' = GapAnalysis(0)
          /\ stats_calls' = stats_calls + 1
          /\ error' = "none"
          /\ pc' = "analyzed"
     ELSE IF MedianPriceRaises(competitors)
     THEN /\ result' = result
          /\ stats_calls' = stats_calls + 1
          /\ error' = "IndexError"
          /\ pc' = "raised"
     ELSE /\ result' = WithLoss(RunRules(target, competitors, grade,
                                         CalculateMarketStats(competitors),
                                         GapAnalysis(Len(competitors))))
          /\ stats_calls' = stats_calls + 1
          /\ error' = "none"
          /\ pc' = "analyzed"
  /\ UNCHANGED <<target, competitors, grade, gap_analysis, plan, templates, doctor>>

\* GapAnalyzer.analyze(target, competitors, target_grade)
Analyze ==
  /\ pc = "start"
  /\ IF Len(competitors) = 0
     THEN /\ result' = GapAnalysis(0)
          /\ stats_calls' = stats_calls
          /\ error' = "none"
          /\ pc' = "analyzed"
     ELSE IF MedianPriceRaises(competitors)
     THEN /\ result' = result
          /\ stats_calls' = stats_calls + 1
          /\ error' = "IndexError"
          /\ pc' = "raised"
     ELSE /\ result' = WithLoss(RunRules(target, competitors, grade,
                                         CalculateMarketStats(competitors),
                                         GapAnalysis(Len(competitors))))
          /\ stats_calls' = stats_calls + 1
          /\ error' = "none"
          /\ pc' = "analyzed"
  /\ UNCHANGED <<target, competitors, grade, gap_analysis, plan, templates, doctor>>

\* generate building all_gaps with  all_gaps = critical_gaps; all_gaps += ...:
\* the important and minor findings end up in the caller's critical_gaps
Generate_ExtendsCritical ==
  /\ pc = "analyzed"
  /\ gap_analysis' = [result EXCEPT
                        !.critical_gaps = @ \o result.important_gaps \o result.minor_gaps]
  /\ result' = gap_analysis'
  /\ plan' = GeneratePlan(result)
  /\ pc' = "planned"
  /\ UNCHANGED <<target, competitors, grade, error, stats_calls, templates,
                 doctor>>

\* ActionPlanGenerator.generate(gap_analysis) on the result of analyze
Generate ==
  /\ pc = "analyzed"
  /\ gap_analysis' = result
  /\ plan' = GeneratePlan(result)
  /\ pc' = "planned"
  /\ UNCHANGED <<target, competitors, grade, result, error, stats_calls,
                 templates, doctor>>

\* ActionPlanGenerator.generate(gap_analysis) on a hand-built GapAnalysis
GenerateBuilt ==
  /\ pc = "built"
  /\ plan' = GeneratePlan(gap_analysis)
  /\ pc' = "planned"
  /\ UNCHANGED <<target, competitors, grade, result, error, stats_calls,
                 gap_analysis, templates, doctor>>

\* VisibilityDoctor.analyze up to its first await: the listing id is
\* extracted, or ValueError leaves the call
DoctorExtract ==
  /\ pc = "doctor"
  /\ LET id == ExtractListingId(doctor.url_or_id)
     IN IF id.raised
        THEN /\ doctor' = [doctor EXCEPT !.error = "Invalid Airbnb URL or ID"]
             /\ pc' = "rejected"
        ELSE /\ doctor' = [doctor EXCEPT !.listing_id = id.value]
             /\ pc' = "grading"
  /\ UNCHANGED <<target, competitors, grade, result, error, stats_calls,
                 gap_analysis, plan, templates>>

\* step 1: await self._grader.grade(listing_id, ...)
DoctorGrade ==
  /\ pc = "grading"
  /\ doctor' = [doctor EXCEPT !.grader_calls = @ + 1]
  /\ pc' = "fetching"
  /\ UNCHANGED <<target, competitors, grade, result, error, stats_calls,
                 gap_analysis, plan, templates>>

\* step 2: await self._scraper.get_listing_details(listing_id); no details
\* raises ValueError, else the details carry the listing's coordinates
DoctorFetch ==
  /\ pc = "fetching"
  /\ \E found \in BOOLEAN, lat \in Latitudes, lng \in Longitudes :
       IF found
       THEN /\ doctor' = [doctor EXCEPT !.scraper_calls = @ + 1,
                                        !.latitude = lat, !.longitude = lng]
            /\ pc' = "fetched"
       ELSE /\ doctor' = [doctor EXCEPT !.scraper_calls = @ + 1,
                                        !.error = "Could not fetch listing"]
            /\ pc' = "rejected"
  /\ UNCHANGED <<target, competitors, grade, result, error, stats_calls,
                 gap_analysis, plan, templates>>

\* step 3: with compare_market and both coordinates truthy the competitors
\* come from await self._scraper.search_by_bounds(...), else no search is
\* made and the list stays empty; steps 4 and 5 are Analyze and Generate on
\* the converted listing
DoctorSearch ==
  /\ pc = "fetched"
  /\ IF doctor.compare_market /\ Truthy(doctor.latitude)
        /\ Truthy(doctor.longitude)
     THEN /\ competitors' \in SearchResults
          /\ doctor' = [doctor EXCEPT !.scraper_calls = @ + 1]
     ELSE /\ competitors' = <<>>
          /\ doctor' = doctor
  /\ pc' = "start"
  /\ UNCHANGED <<target, grade, result, error, stats_calls, gap_analysis,
                 plan, templates>>

Next ==
  \/ Analyze \/ Generate \/ GenerateBuilt
  \/ DoctorExtract \/ DoctorGrade \/ DoctorFetch \/ DoctorSearch

Spec == Init /\ [][Next]_vars

\* ================================================================== claims
Returned == pc = "analyzed"
Called == pc \in {"analyzed", "raised"}
Planned == pc = "planned"

Buckets == {"critical_gaps", "important_gaps", "minor_gaps", "advantages"}

\* the findings of a result as (bucket, position) pairs
Findings(r) ==
  UNION { { <<b, i>> : i \in 1..Len(r[b]) } : b \in Buckets }
FindingAt(r, bi) == r[bi[1]][bi[2]]

\* the rule that issues a title
RuleOf(title) ==
  CASE title \in {"Instant Book desactive", "Instant Book active"} -> "instant book"
    [] title \in {"Nombre de photos insuffisant", "Photos en dessous de la moyenne",
                  "Excellent nombre de photos"} -> "photos"
    [] title \in {"Rating critique", "Rating en dessous du marche",
                  "Excellent rating", "Rating superieur au marche"} -> "rating"
    [] title \in {"Temps de reponse trop long", "Temps de reponse a ameliorer",
                  "Excellent temps de reponse"} -> "response"
    [] title \in {"Prix tres au-dessus du marche", "Prix au-dessus du marche",
                  "Prix competitif", "Prix potentiellement trop bas"} -> "pricing"
    [] title \in {"Equipements essentiels manquants",
                  "Equipements courants manquants"} -> "amenities"
    [] title \in {"Statut Superhost", "Pas de statut Superhost"} -> "superhost"
    [] title \in {"Badge Guest Favorite", "Guest Favorite atteignable"} -> "guest favorite"
    [] title \in {"Trop peu d'avis", "Nombre d'avis en dessous du marche",
                  "Excellent nombre d'avis"} -> "review count"
    [] OTHER -> "none"

NoPositive(cs, f) == \A i \in 1..Len(cs) : cs[i][f] <= 0

\* C1: analyze on an empty competitor list returns, for every target and
\* grade, a result whose four buckets are empty and whose loss is 0; it does
\* not raise and does not call _calculate_market_stats.
C1_EmptyCompetitors ==
  (Called /\ Len(competitors) = 0) =>
    /\ Returned
    /\ error = "none"
    /\ \A b \in Buckets : Len(result[b]) = 0
    /\ result.estimated_visibility_loss = 0
    /\ stats_calls = 0

C1_Witness ==
  /\ Returned
  /\ Len(competitors) = 0
  /\ target.instant_bookable
  /\ grade.response_score < 50
  /\ stats_calls = 0

\* C2 (as claimed): analyze never raises on a non-empty competitor list,
\* also when some or all competitors have price_per_night = 0 or rating = 0.
C2_NeverRaises ==
  (Called /\ Len(competitors) > 0) => (Returned /\ error = "none")

\* C3 (as claimed): when no competitor has a positive price or the target
\* price is <= 0, analyze returns a result without any pricing finding, and
\* the other rules still give theirs (here the response rule, which reads no
\* peer statistic).
C3_NoPricingFinding ==
  (/\ Called
   /\ Len(competitors) > 0
   /\ NoPositive(competitors, "price_per_night") \/ target.price_per_night <= 0)
  => /\ Returned
     /\ \A bi \in Findings(result) : FindingAt(result, bi).category # "pricing"
     /\ grade.response_score < 50 =>
          \E i \in 1..Len(result.critical_gaps) :
            result.critical_gaps[i].category = "response"

\* C4 (as claimed): when no competitor has a rating > 0 (mean rating 0), no
\* rating finding that depends on the peer mean is placed in any bucket.
C4_RatingRuleDisabled ==
  (/\ Returned
   /\ Len(competitors) > 0
   /\ NoPositive(competitors, "rating"))
  => \A bi \in Findings(result) :
       FindingAt(result, bi).title \notin
         {"Rating en dessous du marche", "Rating superieur au marche"}

\* C5: every finding in the advantages bucket has impact_percent >= 0 and
\* every finding in the critical, important or minor bucket has
\* impact_percent <= 0, with 0 only for the low-price minor finding.
C5_ImpactSigns ==
  Returned =>
    \A bi \in Findings(result) :
      LET g == FindingAt(result, bi)
      IN IF bi[1] = "advantages"
         THEN g.impact_percent >= 0
         ELSE /\ g.impact_percent <= 0
              /\ g.impact_percent = 0 =>
                   (bi[1] = "minor_gaps" /\ g.title = "Prix potentiellement trop bas")

C5_Witness ==
  /\ Returned
  /\ \E i \in 1..Len(result.minor_gaps) : result.minor_gaps[i].impact_percent = 0
  /\ Len(result.advantages) > 0
  /\ Len(result.critical_gaps) > 0
  /\ \E i \in 1..Len(result.important_gaps) :
       result.important_gaps[i].title = "Pas de statut Superhost"

RECURSIVE AbsTotal(_, _)
\* |impact_percent| added up over the first k findings of a bucket
AbsTotal(gaps, k) ==
  IF k = 0 THEN 0
  ELSE AbsTotal(gaps, k - 1)
       + (IF gaps[k].impact_percent < 0 THEN 0 - gaps[k].impact_percent
          ELSE gaps[k].impact_percent)

\* C6: estimated_visibility_loss is the sum of |impact_percent| over exactly
\* the findings of the critical, important and minor buckets; advantages do
\* not contribute.
C6_LossIsSum ==
  Returned =>
    result.estimated_visibility_loss =
      AbsTotal(result.critical_gaps, Len(result.critical_gaps))
      + AbsTotal(result.important_gaps, Len(result.important_gaps))
      + AbsTotal(result.minor_gaps, Len(result.minor_gaps))

C6_Witness ==
  /\ Returned
  /\ Len(result.advantages) >= 1
  /\ Len(result.critical_gaps) >= 2
  /\ Len(result.important_gaps) >= 1
  /\ Len(result.minor_gaps) >= 1
  /\ result.estimated_visibility_loss >= 40

\* C7: each of the nine rules appends at most one finding, to one bucket: a
\* result holds at most nine findings and no two from the same rule.
C7_OneFindingPerRule ==
  Returned =>
    /\ Cardinality(Findings(result)) <= 9
    /\ \A x, y \in Findings(result) :
         x # y => RuleOf(FindingAt(result, x).title) # RuleOf(FindingAt(result, y).title)
    /\ \A x \in Findings(result) : RuleOf(FindingAt(result, x).title) # "none"

C7_Witness ==
  /\ Returned
  /\ Cardinality(Findings(result)) >= 8
  /\ \E i \in 1..Len(result.critical_gaps) :
       result.critical_gaps[i].title = "Instant Book desactive"

\* the number n of an action id "action_nn": its place in the input order
IdNumber(id) ==
  CHOOSE k \in 1..99 : id = "action_" \o (IF k < 10 THEN "0" ELSE "") \o ToString(k)

\* the priority generate gives to the k-th finding of critical + important
\* + minor
PriorityAt(ga, k) ==
  IF k <= Len(ga.critical_gaps) THEN "critical"
  ELSE IF k <= Len(ga.critical_gaps) + Len(ga.important_gaps) THEN "high"
  ELSE "medium"

\* C8: plan.actions is ordered by roi_score non-increasing, and actions of
\* equal roi_score keep their input order: critical findings before
\* important before minor, and within a bucket the bucket's order.
C8_SortedByRoiStable ==
  Planned =>
    LET acts == plan.actions
        input == gap_analysis.critical_gaps \o gap_analysis.important_gaps
                 \o gap_analysis.minor_gaps
    IN /\ \A i \in 1..(Len(acts) - 1) :
            acts[i].roi_score.num * acts[i + 1].roi_score.den
              >= acts[i + 1].roi_score.num * acts[i].roi_score.den
       /\ \A i, j \in 1..Len(acts) :
            (i < j /\ acts[i].roi_score.num * acts[j].roi_score.den
                        = acts[j].roi_score.num * acts[i].roi_score.den)
            => IdNumber(acts[i].id) < IdNumber(acts[j].id)
       /\ \A i \in 1..Len(acts) :
            LET k == IdNumber(acts[i].id)
            IN /\ k <= Len(input)
               /\ acts[i].gap_title = input[k].title
               /\ acts[i].impact_percent = Abs(input[k].impact_percent)
               /\ acts[i].priority = PriorityAt(gap_analysis, k)

C8_Witness ==
  /\ Planned
  /\ Len(plan.actions) >= 3
  /\ \E i \in 1..(Len(plan.actions) - 1) :
       /\ Eq(plan.actions[i].roi_score, plan.actions[i + 1].roi_score)
       /\ plan.actions[i].priority = "critical"
       /\ plan.actions[i + 1].priority = "medium"
  /\ \E i \in 1..(Len(plan.actions) - 1) :
       Gt(plan.actions[i].roi_score, plan.actions[i + 1].roi_score)

\* the positions of plan.actions that hold a quick win
QuickPositions ==
  { i \in 1..Len(plan.actions) :
      plan.actions[i].time_minutes <= 30 /\ plan.actions[i].cost_eur = 0 }

\* C9: quick_wins is exactly the subsequence of plan.actions with
\* time_minutes <= 30 and cost_eur = 0, in the order of plan.actions.
C9_QuickWinsExact ==
  Planned =>
    /\ Len(plan.quick_wins) = Cardinality(QuickPositions)
    /\ \A i \in QuickPositions :
         plan.quick_wins[Cardinality({ j \in QuickPositions : j <= i })]
           = plan.actions[i]

C9_Witness ==
  /\ Planned
  /\ Cardinality(QuickPositions) >= 2
  /\ Cardinality(QuickPositions) < Len(plan.actions)
  /\ \E i \in QuickPositions : plan.actions[i].time_minutes = 30
  /\ \E i \in QuickPositions : (i - 1) \in 1..Len(plan.actions) /\ (i - 1) \notin QuickPositions

\* C10: for every action, roi_score = |impact_percent| / effort with
\* effort = time_minutes/60 + cost_eur/100, replaced by 0.1 when it is <= 0;
\* roi_score is defined and >= 0, also for a template of 0 minutes and 0 cost.
C10_RoiFormula ==
  Planned =>
    \A i \in 1..Len(plan.actions) :
      LET a == plan.actions[i]
          \* effort in 1/300: time/60 = 5 time/300, cost/100 = 3 cost/300
          effort300 == 5 * a.time_minutes + 3 * a.cost_eur
      IN /\ a.roi_score.den > 0
         /\ a.roi_score.num >= 0
         /\ a.impact_percent >= 0
         /\ IF effort300 <= 0
            THEN a.roi_score.num = 10 * a.impact_percent * a.roi_score.den
            ELSE a.roi_score.num * effort300 = 300 * a.impact_percent * a.roi_score.den

C10_Witness ==
  /\ Planned
  /\ \E i \in 1..Len(plan.actions) :
       /\ plan.actions[i].time_minutes = 0
       /\ plan.actions[i].cost_eur = 0
       /\ plan.actions[i].impact_percent = 8
       /\ Eq(plan.actions[i].roi_score, I(80))
  /\ \E i \in 1..Len(plan.actions) :
       /\ plan.actions[i].time_minutes = 120
       /\ plan.actions[i].cost_eur = 50
       /\ Eq(plan.actions[i].roi_score, I(10))

\* the findings generate reads, counted over the three loss buckets
LossCount(ga) ==
  Len(ga.critical_gaps) + Len(ga.important_gaps) + Len(ga.minor_gaps)

\* the k-th finding in critical, important, minor order
SourceFinding(ga, k) ==
  IF k <= Len(ga.critical_gaps) THEN ga.critical_gaps[k]
  ELSE IF k <= Len(ga.critical_gaps) + Len(ga.important_gaps)
  THEN ga.important_gaps[k - Len(ga.critical_gaps)]
  ELSE ga.minor_gaps[k - Len(ga.critical_gaps) - Len(ga.important_gaps)]

\* C11: no action of a plan is derived from an advantage finding: no action
\* carries the title of an advantage as gap_title and there are no more
\* actions than loss findings; a target rated >= 4.9 whose rules ran has the
\* advantage "Excellent rating" (+10) and no action with that gap_title.
C11_AdvantagesNoAction ==
  Planned =>
    /\ Len(plan.actions) <= LossCount(gap_analysis)
    /\ \A i \in 1..Len(plan.actions) : \A j \in 1..Len(gap_analysis.advantages) :
         plan.actions[i].gap_title # gap_analysis.advantages[j].title
    /\ (Len(competitors) > 0 /\ target.rating >= 490) =>
         /\ \E j \in 1..Len(gap_analysis.advantages) :
              /\ gap_analysis.advantages[j].title = "Excellent rating"
              /\ gap_analysis.advantages[j].impact_percent = 10
         /\ \A i \in 1..Len(plan.actions) :
              plan.actions[i].gap_title # "Excellent rating"

C11_Witness ==
  /\ Planned
  /\ target.rating = 495
  /\ \E j \in 1..Len(gap_analysis.advantages) :
       /\ gap_analysis.advantages[j].title = "Excellent rating"
       /\ gap_analysis.advantages[j].impact_percent = 10
  /\ Len(gap_analysis.advantages) >= 2
  /\ Len(plan.actions) >= 1

\* C12 as stated: the priority of an action is the severity of the finding
\* it was derived from ("critical", "important" or "minor").
C12_PriorityIsSeverity ==
  Planned =>
    \A i \in 1..Len(plan.actions) :
      plan.actions[i].priority
        = SourceFinding(gap_analysis, IdNumber(plan.actions[i].id)).severity

\* C12 amended: the priority of an action is decided by the bucket of its
\* finding: "critical" for critical_gaps, "high" for important_gaps and
\* "medium" for minor_gaps.
C12_PriorityByBucket ==
  Planned =>
    \A i \in 1..Len(plan.actions) :
      LET k == IdNumber(plan.actions[i].id)
          nc == Len(gap_analysis.critical_gaps)
          ni == Len(gap_analysis.important_gaps)
      IN /\ k \in 1..nc => plan.actions[i].priority = "critical"
         /\ k \in (nc + 1)..(nc + ni) => plan.actions[i].priority = "high"
         /\ k > nc + ni => plan.actions[i].priority = "medium"

C12_Witness ==
  /\ Planned
  /\ \E i \in 1..Len(plan.actions) : plan.actions[i].priority = "critical"
  /\ \E i \in 1..Len(plan.actions) :
       /\ plan.actions[i].priority = "high"
       /\ SourceFinding(gap_analysis, IdNumber(plan.actions[i].id)).severity = "important"
  /\ \E i \in 1..Len(plan.actions) :
       /\ plan.actions[i].priority = "medium"
       /\ SourceFinding(gap_analysis, IdNumber(plan.actions[i].id)).severity = "minor"

\* the keywords in the order the claim gives them
KeywordOrder ==
  << "instant book", "photos", "temps de reponse", "rating", "avis", "prix",
     "equipements", "superhost", "guest favorite" >>

\* the titles a finding of the model can carry
KnownTitles ==
  { "Instant Book desactive", "Instant Book active",
    "Nombre de photos insuffisant", "Photos en dessous de la moyenne",
    "Excellent nombre de photos",
    "Rating critique", "Rating en dessous du marche", "Excellent rating",
    "Rating superieur au marche",
    "Temps de reponse trop long", "Temps de reponse a ameliorer",
    "Excellent temps de reponse",
    "Prix tres au-dessus du marche", "Prix au-dessus du marche",
    "Prix competitif", "Prix potentiellement trop bas",
    "Equipements essentiels manquants", "Equipements courants manquants",
    "Statut Superhost", "Pas de statut Superhost",
    "Badge Guest Favorite", "Guest Favorite atteignable",
    "Trop peu d'avis", "Nombre d'avis en dessous du marche",
    "Excellent nombre d'avis" } \cup HandTitles

\* for each title, the keywords found in the lower-cased title, as places
\* in KeywordOrder
MatchingTable ==
  [title \in KnownTitles |->
     { k \in 1..Len(KeywordOrder) :
         Contains(Lower(Chars(title)), Chars(KeywordOrder[k])) }]

Matching(title) == MatchingTable[title]

\* the entry of ACTION_TEMPLATES filed under a keyword
TemplateOf(key) ==
  ACTION_TEMPLATES[CHOOSE k \in 1..Len(ACTION_TEMPLATES) : ACTION_TEMPLATES[k].key = key]

\* C13: an action whose finding's lower-cased title contains a keyword takes
\* time_minutes, cost_eur and steps from the template of the first such
\* keyword in the order of KeywordOrder; every action's impact_percent is
\* the absolute value of its finding's.
C13_FirstMatchingTemplate ==
  Planned =>
    \A i \in 1..Len(plan.actions) :
      LET a == plan.actions[i]
          g == SourceFinding(gap_analysis, IdNumber(a.id))
          m == Matching(g.title)
      IN /\ a.impact_percent = Abs(g.impact_percent)
         /\ a.gap_title = g.title
         /\ m # {} =>
              LET t == TemplateOf(KeywordOrder[CHOOSE k \in m : \A h \in m : k <= h])
              IN /\ a.time_minutes = t.time_minutes
                 /\ a.cost_eur = t.cost_eur
                 /\ a.steps = t.steps

C13_Witness ==
  /\ Planned
  /\ \E i \in 1..Len(plan.actions) :
       /\ plan.actions[i].gap_title = "Photos et avis"
       /\ Cardinality(Matching(plan.actions[i].gap_title)) = 2
       /\ plan.actions[i].time_minutes = 180
       /\ plan.actions[i].steps = "steps: photos"

\* C14: every critical, important and minor finding yields exactly one
\* action (the ids are action_01 .. action_n for the n findings), and an
\* action whose finding's title contains no keyword has time_minutes = 60 and
\* cost_eur = 0.
C14_FallbackDropsNothing ==
  Planned =>
    /\ Len(plan.actions) = LossCount(gap_analysis)
    /\ { IdNumber(plan.actions[i].id) : i \in 1..Len(plan.actions) }
         = 1..LossCount(gap_analysis)
    /\ \A i \in 1..Len(plan.actions) :
         Matching(plan.actions[i].gap_title) = {} =>
           /\ plan.actions[i].time_minutes = 60
           /\ plan.actions[i].cost_eur = 0

C14_Witness ==
  /\ Planned
  /\ Len(plan.actions) >= 2
  /\ \E i \in 1..Len(plan.actions) :
       /\ plan.actions[i].gap_title = "Autre probleme"
       /\ plan.actions[i].time_minutes = 60
       /\ plan.actions[i].cost_eur = 0
  /\ \E i \in 1..Len(plan.actions) : Matching(plan.actions[i].gap_title) # {}

RECURSIVE FieldTotal(_, _, _)
\* the field f added up over the first k actions
FieldTotal(actions, f, k) ==
  IF k = 0 THEN 0 ELSE FieldTotal(actions, f, k - 1) + actions[k][f]

\* C15: total_time_hours = (sum of time_minutes)/60, total_cost_eur = sum of
\* cost_eur and potential_gain_percent = sum of impact_percent, each over
\* all of plan.actions.
C15_Aggregates ==
  Planned =>
    LET n == Len(plan.actions)
    IN /\ Eq(plan.total_time_hours, Frac(FieldTotal(plan.actions, "time_minutes", n), 60))
       /\ plan.total_cost_eur = FieldTotal(plan.actions, "cost_eur", n)
       /\ plan.potential_gain_percent = FieldTotal(plan.actions, "impact_percent", n)

C15_Witness ==
  /\ Planned
  /\ Len(plan.quick_wins) >= 1
  /\ Len(plan.quick_wins) < Len(plan.actions)
  /\ plan.total_cost_eur > 0
  /\ \E i, j \in 1..Len(plan.actions) :
       /\ i # j
       /\ plan.actions[i].impact_percent = plan.actions[j].impact_percent
  /\ plan.potential_gain_percent
       > FieldTotal(plan.quick_wins, "impact_percent", Len(plan.quick_wins))

\* competitors with Instant Book, counted
InstantBookCount(cs) == Cardinality({ i \in 1..Len(cs) : cs[i].instant_bookable })

\* C16 (Scenario A): for a target without Instant Book whose competitors
\* have it in 70% of the cases or more, and for which analyze returned, the
\* critical bucket holds the instant-book finding with impact -15, the plan
\* holds its action with 5 minutes, 0 cost and roi_score 180, that action is
\* a quick win, and every photo action of 180 minutes, 0 cost and impact 15
\* has roi_score 5 and comes later in plan.actions.
C16_ScenarioA ==
  (/\ Planned
   /\ Len(competitors) > 0
   /\ ~target.instant_bookable
   /\ 100 * InstantBookCount(competitors) >= 70 * Len(competitors)) =>
    /\ \E j \in 1..Len(gap_analysis.critical_gaps) :
         /\ gap_analysis.critical_gaps[j].title = "Instant Book desactive"
         /\ gap_analysis.critical_gaps[j].impact_percent = -15
    /\ \E i \in 1..Len(plan.actions) :
         /\ plan.actions[i].gap_title = "Instant Book desactive"
         /\ plan.actions[i].priority = "critical"
         /\ plan.actions[i].time_minutes = 5
         /\ plan.actions[i].cost_eur = 0
         /\ Eq(plan.actions[i].roi_score, I(180))
         /\ \E q \in 1..Len(plan.quick_wins) : plan.quick_wins[q] = plan.actions[i]
         /\ \A k \in 1..Len(plan.actions) :
              (/\ plan.actions[k].time_minutes = 180
               /\ plan.actions[k].cost_eur = 0
               /\ plan.actions[k].impact_percent = 15) =>
                /\ Eq(plan.actions[k].roi_score, I(5))
                /\ i < k

C16_Witness ==
  /\ Planned
  /\ competitors = ScenarioA
  /\ InstantBookCount(competitors) = 16
  /\ ~target.instant_bookable
  /\ \E i, k \in 1..Len(plan.actions) :
       /\ plan.actions[i].gap_title = "Instant Book desactive"
       /\ plan.actions[k].gap_title = "Nombre de photos insuffisant"
       /\ plan.actions[k].time_minutes = 180
       /\ plan.actions[k].impact_percent = 15
       /\ i < k

\* the findings of the rating rule in a result
RatingFindings(r) ==
  { x \in Findings(r) : RuleOf(FindingAt(r, x).title) = "rating" }

\* competitors with a known rating have a positive mean rating
PositiveMeanRating(cs) == \E i \in 1..Len(cs) : cs[i].rating > 0

\* C17: for a target rated below 4.5 and competitors with a positive mean
\* rating, the result of analyze holds exactly one finding of the rating
\* rule: the critical one with impact -25, whatever the mean is.
C17_CriticalRatingOnly ==
  (/\ Returned
   /\ Len(competitors) > 0
   /\ target.rating < 450
   /\ PositiveMeanRating(competitors)) =>
    /\ Cardinality(RatingFindings(result)) = 1
    /\ \A x \in RatingFindings(result) :
         /\ x[1] = "critical_gaps"
         /\ FindingAt(result, x).title = "Rating critique"
         /\ FindingAt(result, x).severity = "critical"
         /\ FindingAt(result, x).impact_percent = -25

\* a target rated 4.3 above a market rated 4.1 on average
C17_Witness ==
  /\ Returned
  /\ competitors = LowRatedPeers
  /\ target.rating = 430
  /\ Cardinality(RatingFindings(result)) = 1

\* C19: a step of analyze leaves target, competitors (the list and its
\* records) and grade as they were; a step of generate leaves the
\* GapAnalysis it is given (buckets, findings, loss) and ACTION_TEMPLATES as
\* they were.
C19_InputsUnchanged ==
  [][/\ pc = "start" =>
          /\ target' = target
          /\ competitors' = competitors
          /\ grade' = grade
     /\ pc = "analyzed" =>
          /\ gap_analysis' = result
          /\ result' = result
          /\ templates' = templates
     /\ pc = "built" =>
          /\ gap_analysis' = gap_analysis
          /\ templates' = templates]_vars

\* a plan whose actions were reordered by the sort, built from an analysis
\* with findings in several buckets
C19_Witness ==
  /\ Planned
  /\ Len(competitors) > 0
  /\ Len(gap_analysis.critical_gaps) >= 1
  /\ Len(gap_analysis.important_gaps) >= 1
  /\ Len(gap_analysis.advantages) >= 1
  /\ gap_analysis = result
  /\ templates = ACTION_TEMPLATES
  /\ \E i, j \in 1..Len(plan.actions) :
       i < j /\ IdNumber(plan.actions[i].id) > IdNumber(plan.actions[j].id)

\* the doctor call has passed the extraction of the listing id
Extracted ==
  pc = "rejected" \/ pc = "grading" \/ doctor.grader_calls > 0

\* an input of digits only
AllDigitInput(s) == s # <<>> /\ \A i \in 1..Len(s) : s[i] \in DigitChars

\* "/rooms/" followed by a digit occurs in s at position i
RoomsDigitsAt(s, i) ==
  /\ i + 7 <= Len(s)
  /\ SubSeq(s, i, i + 6) = <<"/", "r", "o", "o", "m", "s", "/">>
  /\ s[i + 7] \in DigitChars

\* id is the whole run of digits that follows the first "/rooms/<digits>"
FollowsRooms(s, id) ==
  \E i \in 1..Len(s) :
    /\ RoomsDigitsAt(s, i)
    /\ \A h \in 1..(i - 1) : ~RoomsDigitsAt(s, h)
    /\ AllDigitInput(id)
    /\ i + 6 + Len(id) <= Len(s)
    /\ SubSeq(s, i + 7, i + 6 + Len(id)) = id
    /\ (i + 7 + Len(id) <= Len(s)) => s[i + 7 + Len(id)] \notin DigitChars

\* C20: _extract_listing_id returns an all-digit input unchanged, the digits
\* after "/rooms/" for an input that contains "/rooms/<digits>", and raises
\* ValueError for every other input; when it raises in analyze, neither the
\* grader nor the scraper has been called.
C20_ExtractListingId ==
  Extracted =>
    LET s == doctor.url_or_id
        invalid == doctor.error = "Invalid Airbnb URL or ID"
    IN /\ AllDigitInput(s) => (~invalid /\ doctor.listing_id = s)
       /\ (~AllDigitInput(s) /\ \E i \in 1..Len(s) : RoomsDigitsAt(s, i)) =>
            (~invalid /\ FollowsRooms(s, doctor.listing_id))
       /\ (~AllDigitInput(s) /\ \A i \in 1..Len(s) : ~RoomsDigitsAt(s, i)) =>
            (invalid /\ pc = "rejected")
       /\ invalid => (doctor.grader_calls = 0 /\ doctor.scraper_calls = 0)

\* the id of "https://airbnb.fr/rooms/12345678?adults=2" handed to the grader
C20_Witness ==
  /\ pc = "fetching"
  /\ doctor.grader_calls = 1
  /\ doctor.listing_id = <<"1", "2", "3", "4", "5", "6", "7", "8">>
  /\ Len(doctor.url_or_id) = 17 + 7 + 8 + 9
  /\ Head(doctor.url_or_id) = "h"
  /\ doctor.url_or_id[Len(doctor.url_or_id)] = "2"

\* the outcomes of a rule in a result: the (bucket, impact) pairs of the
\* findings that carry one of the rule's titles
RuleOutcomes(r, rule) ==
  { <<x[1], FindingAt(r, x).impact_percent>> :
      x \in { y \in Findings(r) : RuleOf(FindingAt(r, y).title) = rule } }

\* the sum and the number of the positive values of a field over the
\* competitors
PositiveSum(cs, f) == SumSeq(Positive(Field(cs, f)))
PositiveCount(cs, f) == Len(Positive(Field(cs, f)))

\* C21 (as claimed): for a target rated 4.5 or more and competitors with a
\* known rating, the rating rule gives an important finding (-12) iff
\* rating < 4.8 and rating - peer mean < -0.2, otherwise an advantage (+10)
\* iff rating >= 4.9, otherwise an advantage (+5) iff rating - peer mean >
\* +0.1, otherwise nothing; the differences are those of the decimals, so a
\* difference of exactly -0.2 or +0.1 gives nothing.
C21_RatingCutoffs ==
  (/\ Returned
   /\ Len(competitors) > 0
   /\ target.rating >= 450
   /\ PositiveMeanRating(competitors)) =>
    LET n == PositiveCount(competitors, "rating")
        diff_n == target.rating * n - PositiveSum(competitors, "rating")
    IN RuleOutcomes(result, "rating") =
         IF target.rating < 480 /\ diff_n < (0 - 20) * n
         THEN {<<"important_gaps", -12>>}
         ELSE IF target.rating >= 490 THEN {<<"advantages", 10>>}
         ELSE IF diff_n > 10 * n THEN {<<"advantages", 5>>}
         ELSE {}

\* C22 (as claimed): for a target price > 0 and competitors with a known
\* price, with d = target price / mean of the known prices - 1, the price
\* rule gives a critical finding (-20) iff d > 0.35, an important one (-12)
\* iff 0.20 < d <= 0.35, an advantage (+5) iff -0.10 <= d <= 0.05, a minor
\* finding with impact 0 iff d < -0.25, and nothing in between.
C22_PriceCutoffs ==
  (/\ Returned
   /\ Len(competitors) > 0
   /\ target.price_per_night > 0
   /\ PositiveCount(competitors, "price_per_night") > 0) =>
    LET total == PositiveSum(competitors, "price_per_night")
        n == PositiveCount(competitors, "price_per_night")
        \* 100 * d * total
        d_100 == 100 * (target.price_per_night * n - total)
    IN RuleOutcomes(result, "pricing") =
         IF d_100 > 35 * total THEN {<<"critical_gaps", -20>>}
         ELSE IF d_100 > 20 * total THEN {<<"important_gaps", -12>>}
         ELSE IF (0 - 10) * total <= d_100 /\ d_100 <= 5 * total
         THEN {<<"advantages", 5>>}
         ELSE IF d_100 < (0 - 25) * total THEN {<<"minor_gaps", 0>>}
         ELSE {}

\* the lower-cased labels of an amenity list
LabelSet(amenities) ==
  { Lower(Chars(amenities[j])) : j \in 1..Len(amenities) }

\* the competitors that offer an amenity, under any spelling and however
\* many times they list it
Offering(cs, a) == { i \in 1..Len(cs) : a \in LabelSet(cs[i].amenities) }

\* the set M of the claim: essential, offered by 70% of the competitors or
\* more, absent from the target
MissingEssential(t, cs) ==
  { a \in UNION { LabelSet(cs[i].amenities) : i \in 1..Len(cs) } :
      /\ \E k \in 1..Len(ESSENTIAL_AMENITIES) :
           Contains(a, Chars(ESSENTIAL_AMENITIES[k]))
      /\ 100 * Cardinality(Offering(cs, a)) >= 70 * Len(cs)
      /\ a \notin LabelSet(t.amenities) }

\* C23 (as claimed): with M the set of essential amenities that 70% of the
\* competitors or more offer and the target lacks, the amenities rule gives
\* a critical finding (-12) iff |M| >= 3, an important finding (-6) iff |M|
\* is 1 or 2, and nothing iff M is empty; the share is the share of
\* competitors, so one that lists a label more than once counts once.
C23_AmenitiesShare ==
  (Returned /\ Len(competitors) > 0) =>
    LET M == MissingEssential(target, competitors)
    IN RuleOutcomes(result, "amenities") =
         IF Cardinality(M) >= 3 THEN {<<"critical_gaps", -12>>}
         ELSE IF Cardinality(M) > 0 THEN {<<"important_gaps", -6>>}
         ELSE {}

\* C24: analyze gives a target without Instant Book a critical finding (-15)
\* iff 70% of the competitors or more have it, an important finding (-10)
\* iff at least 50% and less than 70% have it, and no instant-book finding
\* below 50%; a target with Instant Book gets exactly the advantage (+5).
C24_InstantBookCutoffs ==
  (Returned /\ Len(competitors) > 0) =>
    LET with_100 == 100 * InstantBookCount(competitors)
        n == Len(competitors)
    IN RuleOutcomes(result, "instant book") =
         IF target.instant_bookable THEN {<<"advantages", 5>>}
         ELSE IF with_100 >= 70 * n THEN {<<"critical_gaps", -15>>}
         ELSE IF with_100 >= 50 * n THEN {<<"important_gaps", -10>>}
         ELSE {}

\* 14 of 20 competitors with Instant Book, exactly 70%: critical
C24_Witness ==
  /\ Returned
  /\ competitors = Market70
  /\ InstantBookCount(competitors) = 14
  /\ ~target.instant_bookable
  /\ RuleOutcomes(result, "instant book") = {<<"critical_gaps", -15>>}

\* C25: the review-count rule gives a critical finding (-20) iff the target
\* has fewer than 5 reviews, otherwise an important one (-10) iff it has
\* fewer than half the competitors' mean, otherwise an advantage (+5) iff it
\* has more than one and a half times the mean, otherwise nothing; below 5
\* reviews the finding is the critical one also above 1.5 times the mean.
C25_ReviewCountCutoffs ==
  (Returned /\ Len(competitors) > 0) =>
    LET total == SumSeq(Field(competitors, "reviews_count"))
        count_n == target.reviews_count * Len(competitors)
    IN RuleOutcomes(result, "review count") =
         IF target.reviews_count < 5 THEN {<<"critical_gaps", -20>>}
         ELSE IF 2 * count_n < total THEN {<<"important_gaps", -10>>}
         ELSE IF 2 * count_n > 3 * total THEN {<<"advantages", 5>>}
         ELSE {}

\* 4 reviews against a mean of 2: more than 1.5 times the mean, yet critical
C25_Witness ==
  /\ Returned
  /\ competitors = PeerRated50
  /\ target.reviews_count = 4
  /\ 2 * target.reviews_count > 3 * competitors[1].reviews_count
  /\ RuleOutcomes(result, "review count") = {<<"critical_gaps", -20>>}

\* C26: the response rule gives a critical finding (-15) iff the grade's
\* response sub-score is below 50, an important one (-8) iff it is at least
\* 50 and below 70, an advantage (+5) iff it is at least 70 and the response
\* rate is at least 98 and the response time at most 1 hour, and nothing
\* otherwise: the outcome is a function of target and grade alone, the same
\* for every non-empty competitor list.
C26_ResponseCutoffs ==
  (Returned /\ Len(competitors) > 0) =>
    RuleOutcomes(result, "response") =
      IF grade.response_score < 50 THEN {<<"critical_gaps", -15>>}
      ELSE IF grade.response_score < 70 THEN {<<"important_gaps", -8>>}
      ELSE IF target.response_rate >= 98 /\ target.response_time_hours <= 1
      THEN {<<"advantages", 5>>}
      ELSE {}

\* a sub-score of exactly 50 with a fast, reliable host: important, and no
\* advantage
C26_Witness ==
  /\ Returned
  /\ Len(competitors) > 1
  /\ grade.response_score = 50
  /\ target.response_rate >= 98
  /\ target.response_time_hours <= 1
  /\ RuleOutcomes(result, "response") = {<<"important_gaps", -8>>}

\* C27: with d = target photo count - mean photo count of the competitors,
\* the photo rule gives a critical finding (-15) iff d < -10, an important
\* one (-8) iff -10 <= d < -5, an advantage (+5) iff d > 5 and nothing iff
\* -5 <= d <= 5; it never gives two of them.
C27_PhotoCutoffs ==
  (Returned /\ Len(competitors) > 0) =>
    LET n == Len(competitors)
        d_n == target.images * n - SumSeq(Field(competitors, "images"))
    IN RuleOutcomes(result, "photos") =
         IF d_n < (0 - 10) * n THEN {<<"critical_gaps", -15>>}
         ELSE IF d_n < (0 - 5) * n THEN {<<"important_gaps", -8>>}
         ELSE IF d_n > 5 * n THEN {<<"advantages", 5>>}
         ELSE {}

\* 10 photos against a mean of 20, d = -10 exactly: important, not critical
C27_Witness ==
  /\ Returned
  /\ Len(competitors) = 2
  /\ target.images = 10
  /\ SumSeq(Field(competitors, "images")) = 40
  /\ RuleOutcomes(result, "photos") = {<<"important_gaps", -8>>}

\* competitors with the guest-favorite badge, counted
GuestFavoriteCount(cs) ==
  Cardinality({ i \in 1..Len(cs) : cs[i].is_guest_favorite })

\* C28: the guest-favorite rule gives a target with the badge exactly the
\* advantage (+12); a target without it gets a minor finding (-5) iff 20% of
\* the competitors or more have the badge and the target is rated 4.8 or
\* more, and nothing otherwise; no finding of the rule is in the critical or
\* the important bucket.
C28_GuestFavoriteCutoffs ==
  (Returned /\ Len(competitors) > 0) =>
    RuleOutcomes(result, "guest favorite") =
      IF target.is_guest_favorite THEN {<<"advantages", 12>>}
      ELSE IF /\ 100 * GuestFavoriteCount(competitors) >= 20 * Len(competitors)
              /\ target.rating >= 480
      THEN {<<"minor_gaps", -5>>}
      ELSE {}

\* 4 of 20 competitors with the badge, exactly 20%, and a target rated 4.8
C28_Witness ==
  /\ Returned
  /\ competitors = Market70
  /\ GuestFavoriteCount(competitors) = 4
  /\ ~target.is_guest_favorite
  /\ target.rating = 480
  /\ RuleOutcomes(result, "guest favorite") = {<<"minor_gaps", -5>>}

\* the template keyword the claim assigns to each rule
KeywordOfRule(rule) ==
  CASE rule = "instant book" -> "instant book"
    [] rule = "photos" -> "photos"
    [] rule = "response" -> "temps de reponse"
    [] rule = "rating" -> "rating"
    [] rule = "review count" -> "avis"
    [] rule = "pricing" -> "prix"
    [] rule = "amenities" -> "equipements"
    [] rule = "superhost" -> "superhost"
    [] rule = "guest favorite" -> "guest favorite"

\* a plan generate built from the result of analyze
PlannedFromAnalysis == Planned /\ gap_analysis = result

\* C29 (as claimed): in the analyze-then-generate pipeline every action is
\* built from the template filed under the keyword of the rule its finding
\* came from, never from the 60-minute fallback: a response finding gives a
\* 15-minute action at no cost, an amenities finding a 60-minute action at a
\* cost of 150.
C29_OwnTemplate ==
  PlannedFromAnalysis =>
    \A i \in 1..Len(plan.actions) :
      LET a == plan.actions[i]
          own == TemplateOf(KeywordOfRule(RuleOf(a.gap_title)))
      IN /\ a.title = own.title
         /\ a.category = own.category
         /\ a.time_minutes = own.time_minutes
         /\ a.cost_eur = own.cost_eur
         /\ a.steps = own.steps

\* C30: for a plan generate built from the result of analyze, the number of
\* actions is the number of critical, important and minor findings, the ids
\* of the actions are pairwise distinct, and plan.potential_gain_percent is
\* the result's estimated_visibility_loss.
C30_PlanMatchesAnalysis ==
  PlannedFromAnalysis =>
    /\ Len(plan.actions) =
         Len(gap_analysis.critical_gaps) + Len(gap_analysis.important_gaps)
         + Len(gap_analysis.minor_gaps)
    /\ \A i, j \in 1..Len(plan.actions) :
         i # j => plan.actions[i].id # plan.actions[j].id
    /\ plan.potential_gain_percent = gap_analysis.estimated_visibility_loss

\* a plan of five actions or more from findings of all three loss buckets,
\* next to an advantage that gives no action
C30_Witness ==
  /\ PlannedFromAnalysis
  /\ Len(competitors) > 0
  /\ Len(plan.actions) >= 5
  /\ Len(gap_analysis.critical_gaps) > 0
  /\ Len(gap_analysis.important_gaps) > 0
  /\ Len(gap_analysis.minor_gaps) > 0
  /\ Len(gap_analysis.advantages) > 0
  /\ plan.potential_gain_percent >= 50
====
